---- MODULE Spec2Model ----
(***************************************************************************)
(* A model of dojo-v2 (src/lib): the migration manager (migrate.py), the   *)
(* context with its history and config operations (context.py), alone and *)
(* as concurrent invocations, the fuzzy navigator with goto and favorites  *)
(* (navigator.py) and the health scan with its fixes (health.py).          *)
(*                                                                         *)
(* Optional values (Python None) are sequences of length at most one:      *)
(* None is <<>> and a present value v is <<v>>.                            *)
(***************************************************************************)
EXTENDS Integers, Sequences, FiniteSets, TLC

VARIABLES
    tree,        \* the workspace under dojo_root: relative path -> "dir" or a file's content
    backup,      \* migration_backup.json: <<>> when absent, else <<[timestamp, moves]>>
    console,     \* the report lines printed by the last operation
    raised,      \* TRUE when the last operation ended in an unhandled exception
    clock,       \* datetime.now(), a logical clock
    origTree,    \* (history variable) the workspace before any migration
    phase,       \* (history variable) "init", "executed", "roundtrip" or "other"
    cwdDir,      \* the listing of the directory a classification looks at
    detected,    \* the result of detect_type() on cwdDir, <<>> before the call
    quick,       \* the result of get_quick_actions() for that type
    historyFile, \* history.json
    configFile,  \* config.json
    ctx,         \* the DojoContext of the invocation, <<>> before construction
    visitCalls,  \* (history variable) project -> number of log_visit calls made for it
    lastVisit,   \* (history variable) the project of the last log_visit call
    cmdLog,      \* (history variable) every command passed to log_command, in order
    toggleCalls, \* (history variable) name -> number of times it has been toggled
    inflight,    \* the log_visit and log_command calls of concurrent invocations
    tainted,     \* (history variable) history.json was damaged or deleted from outside
    listing,     \* the category folders that exist: category -> its entries, in iterdir order
    searchTerm,  \* the term of the last _fuzzy_search, <<>> before the first
    matches,     \* the list the last _fuzzy_search returned
    selection,   \* what the user typed at the prompt of goto, <<>> when not asked
    target,      \* the match goto resolved, <<>> when none
    osCwd,       \* the current directory of the process
    scanned,     \* what the health scan looks at: the repositories and projects under dojo_root
    results,     \* the results of the last health scan, <<>> before the first
    issued,      \* the fix commands run by the last health operation, in order
    lastOp       \* (history variable) the last operation and the arguments it was given

migVars == <<tree, backup, origTree, phase>>
clsVars == <<cwdDir, detected, quick>>
histVars == <<historyFile, configFile, ctx, visitCalls, lastVisit, cmdLog, toggleCalls,
              inflight, tainted>>
searchVars == <<listing, searchTerm, matches, selection, target, osCwd>>
healthVars == <<scanned, results, issued>>

vars == <<tree, backup, console, raised, clock, origTree, phase,
          cwdDir, detected, quick,
          historyFile, configFile, ctx, visitCalls, lastVisit, cmdLog, toggleCalls,
          inflight, tainted,
          listing, searchTerm, matches, selection, target, osCwd,
          scanned, results, issued, lastOp>>

----------------------------------------------------------------------------
(* Bounds of the model.                                                    *)

\* The largest number of legacy folders an initial workspace holds.
MaxLegacy == 2
\* The largest number of moves that fail with an OS error in one operation.
MaxFsErrors == 1
\* The number of operations of one behaviour.
MaxOps == 3

----------------------------------------------------------------------------
(* Paths and the filesystem.                                               *)

None == <<>>
Some(v) == <<v>>

IsPrefix(p, q) == Len(p) <= Len(q) /\ SubSeq(q, 1, Len(p)) = p

Parent(p) == SubSeq(p, 1, Len(p) - 1)

Exists(t, p) == p = <<>> \/ p \in DOMAIN t

IsDir(t, p) == p = <<>> \/ (p \in DOMAIN t /\ t[p] = "dir")

\* Path.mkdir(parents=True, exist_ok=True) where no file is in the way.
RECURSIVE MkdirParents(_, _)
MkdirParents(t, p) ==
    IF Exists(t, p) THEN t
    ELSE MkdirParents(t, Parent(p)) @@ (p :> "dir")

\* os.rename of a directory or file to a path that does not exist.
Rename(t, src, dst) ==
    LET moved == {p \in DOMAIN t : IsPrefix(src, p)}
        moveTo(p) == dst \o SubSeq(p, Len(src) + 1, Len(p))
        kept == DOMAIN t \ moved
    IN  [q \in kept \cup {moveTo(p) : p \in moved} |->
            IF q \in kept THEN t[q]
            ELSE t[src \o SubSeq(q, Len(dst) + 1, Len(q))]]

\* A move that leaves the source where it is: a copy.
ShutilCopy(t, src, dst, oserror) ==
    IF oserror \/ ~Exists(t, src) \/ Exists(t, dst)
    THEN [ok |-> FALSE, tree |-> t]
    ELSE [ok |-> TRUE,
          tree |-> Rename(MkdirParents(t, Parent(dst)), src, dst) @@ t]

\* shutil.move(src, dst); oserror is an error of the operating system
\* (permission denied, ...) raised by the call.
ShutilMove(t, src, dst, oserror) ==
    IF oserror \/ ~Exists(t, src) \/ IsPrefix(src, dst)
    THEN [ok |-> FALSE, tree |-> t]
    ELSE IF IsDir(t, dst)
    THEN LET real == dst \o <<src[Len(src)]>>
         IN  IF Exists(t, real)
             THEN [ok |-> FALSE, tree |-> t]
             ELSE [ok |-> TRUE, tree |-> Rename(t, src, real)]
    ELSE IF Exists(t, dst)
    THEN [ok |-> FALSE, tree |-> t]
    ELSE [ok |-> TRUE, tree |-> Rename(MkdirParents(t, Parent(dst)), src, dst)]

----------------------------------------------------------------------------
(* Migration (migrate.py).                                                 *)

structure_map ==
    << [from |-> <<"apps">>,        to |-> <<"work", "apps">>],
       [from |-> <<"bots">>,        to |-> <<"work", "bots">>],
       [from |-> <<"tools">>,       to |-> <<"work", "tools">>],
       [from |-> <<"contracts">>,   to |-> <<"work", "contracts">>],
       [from |-> <<"experiments">>, to |-> <<"lab">>],
       [from |-> <<"protocols">>,   to |-> <<"research", "defi">>],
       [from |-> <<"ideas">>,       to |-> <<"research", "strategies">>],
       [from |-> <<"archive">>,     to |-> <<"resources">>],
       [from |-> <<"downloads">>,   to |-> <<"resources", "downloads">>] >>

LegacyFolders == {structure_map[i].from[1] : i \in DOMAIN structure_map}

NewFolders == <<"work", "lab", "research", "resources">>

Line(msg, path, ok) == [msg |-> msg, path |-> path, ok |-> ok]

\* preview(): the rows of the mapping table, one per legacy folder present.
RECURSIVE PreviewRows(_, _)
PreviewRows(t, i) ==
    IF i > Len(structure_map) THEN <<>>
    ELSE (IF Exists(t, structure_map[i].from)
          THEN <<Line("map", structure_map[i].from, TRUE)>>
          ELSE <<>>) \o PreviewRows(t, i + 1)

\* The four mkdir(exist_ok=True) of execute().
RECURSIVE MkdirNew(_, _)
MkdirNew(t, i) ==
    IF i > Len(NewFolders) THEN t
    ELSE MkdirNew(MkdirParents(t, <<NewFolders[i]>>), i + 1)

\* A loop that ends at the first entry whose move fails.
RECURSIVE ExecuteLoopFirstFailure(_, _, _, _, _)
ExecuteLoopFirstFailure(i, t, moves, out, failing) ==
    IF i > Len(structure_map) THEN [tree |-> t, moves |-> moves, out |-> out]
    ELSE LET old == structure_map[i].from
             new == structure_map[i].to
         IN  IF ~Exists(t, old)
             THEN ExecuteLoopFirstFailure(i + 1, t, moves, out, failing)
             ELSE LET m == ShutilMove(MkdirParents(t, Parent(new)), old, new,
                                      old \in failing)
                  IN  IF m.ok
                      THEN ExecuteLoopFirstFailure(i + 1, m.tree,
                                       Append(moves, structure_map[i]),
                                       Append(out, Line("moving", old, TRUE)),
                                       failing)
                      ELSE [tree |-> m.tree, moves |-> moves,
                            out |-> Append(out, Line("moving", old, FALSE))]

\* The loop of execute() from entry i on: the tree, the recorded moves and the
\* lines printed. failing is the set of sources whose move raises an OS error.
RECURSIVE ExecuteLoop(_, _, _, _, _)
ExecuteLoop(i, t, moves, out, failing) ==
    IF i > Len(structure_map) THEN [tree |-> t, moves |-> moves, out |-> out]
    ELSE LET old == structure_map[i].from
             new == structure_map[i].to
         IN  IF ~Exists(t, old)
             THEN ExecuteLoop(i + 1, t, moves, out, failing)
             ELSE LET t1 == MkdirParents(t, Parent(new))
                      m == ShutilMove(t1, old, new, old \in failing)
                  IN  IF m.ok
                      THEN ExecuteLoop(i + 1, m.tree,
                                       Append(moves, structure_map[i]),
                                       Append(out, Line("moving", old, TRUE)),
                                       failing)
                      ELSE ExecuteLoop(i + 1, m.tree, moves,
                                       Append(out, Line("moving", old, FALSE)),
                                       failing)

\* A loop over the moves in the order they were recorded.
RECURSIVE RollbackLoopForward(_, _, _, _, _)
RollbackLoopForward(i, moves, t, out, failing) ==
    IF i < 1 THEN [tree |-> t, out |-> out]
    ELSE LET k == Len(moves) + 1 - i
             m == ShutilMove(t, moves[k].to, moves[k].from, moves[k].from \in failing)
         IN  RollbackLoopForward(i - 1, moves, m.tree,
                                 Append(out, Line("restoring", moves[k].from, m.ok)),
                                 failing)

\* The loop of rollback() over reversed(moves), from position i down.
RECURSIVE RollbackLoop(_, _, _, _, _)
RollbackLoop(i, moves, t, out, failing) ==
    IF i < 1 THEN [tree |-> t, out |-> out]
    ELSE LET old == moves[i].from
             new == moves[i].to
             m == ShutilMove(t, new, old, old \in failing)
         IN  RollbackLoop(i - 1, moves, m.tree,
                          Append(out, Line("restoring", old, m.ok)), failing)

\* An unlink that leaves the file in place.
UnlinkKeeps(file) == file

\* self.backup_file.unlink(): the file is gone.
Unlink(file) == None

\* The sets of at most MaxFsErrors of the given sources whose move fails.
Failing(sources) == {F \in SUBSET sources : Cardinality(F) <= MaxFsErrors}

\* The sources execute() finds in the tree, and those rollback() restores.
Present(t) == {<<f>> : f \in {g \in LegacyFolders : Exists(t, <<g>>)}}
Recorded(b) == IF b = None THEN {} ELSE {b[1].moves[i].from : i \in DOMAIN b[1].moves}

AllOk(out) == \A i \in DOMAIN out : out[i].ok

Preview ==
    /\ clock < MaxOps
    /\ lastOp' = [op |-> "preview"]
    /\ clock' = clock + 1
    /\ console' = PreviewRows(tree, 1)
    /\ raised' = FALSE
    /\ UNCHANGED <<tree, backup, origTree, phase, clsVars, histVars, searchVars, healthVars>>

\* An execute() that goes on whatever is answered at the prompt.
ExecuteUnasked(confirm, failing) ==
    /\ clock < MaxOps
    /\ lastOp' = [op |-> "execute", confirm |-> confirm]
    /\ clock' = clock + 1
    /\ raised' = FALSE
    /\ UNCHANGED <<clsVars, histVars, searchVars, healthVars>>
    /\ LET r == ExecuteLoop(1, MkdirNew(tree, 1), <<>>, <<>>, failing)
       IN  /\ tree' = r.tree
           /\ backup' = Some([timestamp |-> clock, moves |-> r.moves])
           /\ console' = PreviewRows(tree, 1) \o r.out
                           \o <<Line("complete", <<>>, TRUE)>>
           /\ phase' = "other"
           /\ UNCHANGED origTree

Execute(confirm, failing) ==
    /\ clock < MaxOps
    /\ lastOp' = [op |-> "execute", confirm |-> confirm]
    /\ clock' = clock + 1
    /\ raised' = FALSE
    /\ UNCHANGED <<clsVars, histVars, searchVars, healthVars>>
    /\ IF ~confirm
       THEN /\ console' = Append(PreviewRows(tree, 1), Line("cancelled", <<>>, TRUE))
            /\ UNCHANGED <<tree, backup, origTree, phase>>
       ELSE LET r == ExecuteLoop(1, MkdirNew(tree, 1), <<>>, <<>>, failing)
            IN  /\ tree' = r.tree
                /\ backup' = Some([timestamp |-> clock, moves |-> r.moves])
                /\ console' = PreviewRows(tree, 1) \o r.out
                                \o <<Line("complete", <<>>, TRUE)>>
                /\ phase' = IF phase = "init" /\ AllOk(r.out)
                            THEN "executed" ELSE "other"
                /\ UNCHANGED origTree

Rollback(confirm, failing) ==
    /\ clock < MaxOps
    /\ lastOp' = [op |-> "rollback", confirm |-> confirm]
    /\ clock' = clock + 1
    /\ raised' = FALSE
    /\ UNCHANGED <<clsVars, histVars, searchVars, healthVars>>
    /\ IF backup = None
       THEN /\ console' = <<Line("no backup", <<>>, FALSE)>>
            /\ UNCHANGED <<tree, backup, origTree, phase>>
       ELSE IF ~confirm
       THEN /\ console' = <<Line("found", <<>>, TRUE), Line("cancelled", <<>>, TRUE)>>
            /\ UNCHANGED <<tree, backup, origTree, phase>>
       ELSE LET moves == backup[1].moves
                r == RollbackLoop(Len(moves), moves, tree, <<>>, failing)
            IN  /\ tree' = r.tree
                /\ backup' = Unlink(backup)
                /\ console' = <<Line("found", <<>>, TRUE)>> \o r.out
                                \o <<Line("complete", <<>>, TRUE)>>
                /\ phase' = IF phase = "executed" /\ AllOk(r.out)
                            THEN "roundtrip" ELSE "other"
                /\ UNCHANGED origTree

\* A workspace holding the legacy folders L and the new folders N, each with
\* one file whose content names the folder it was created in.
Workspace(L, N) ==
    [p \in {<<f>> : f \in L \cup N} \cup {<<f, "data">> : f \in L \cup N} |->
        IF Len(p) = 1 THEN "dir" ELSE p[1]]

\* The legacy folders of the initial workspaces: one or two for each kind of
\* entry of structure_map (into work/, onto a new top-level folder, into
\* research/, into resources/).
SeedFolders == {"apps", "tools", "experiments", "protocols", "archive", "downloads"}

\* At most MaxLegacy legacy folders, and at most one folder of the new
\* structure that exists already.
InitTrees ==
    {Workspace(L, N) :
        L \in {S \in SUBSET SeedFolders : Cardinality(S) <= MaxLegacy},
        N \in {S \in SUBSET {NewFolders[i] : i \in DOMAIN NewFolders} :
                  Cardinality(S) <= 1}}

----------------------------------------------------------------------------
(* Classification (context.py: detect_type, _check_node, get_quick_actions). *)

\* The largest number of marker and config files in a classified directory.
MaxFiles == 2
\* The largest number of dependencies a package.json lists.
MaxDeps == 2

\* dict.get(key, default) on a JSON object.
Get(d, k, default) == IF k \in DOMAIN d THEN d[k] ELSE default

\* The (marker file, checker) pairs of detect_type, in its order; a checker is
\* "_check_node" or the constant type it returns.
checks ==
    << [file |-> "package.json",     checker |-> "_check_node"],
       [file |-> "app.py",           checker |-> "streamlit"],
       [file |-> "requirements.txt", checker |-> "python"],
       [file |-> "foundry.toml",     checker |-> "foundry"],
       [file |-> "Cargo.toml",       checker |-> "rust"],
       [file |-> "go.mod",           checker |-> "go"] >>

\* json.loads((cwd / 'package.json').read_text()): the document, or the call raises.
ReadManifest(dir) ==
    IF "package.json" \in dir.files THEN dir.manifest ELSE [kind |-> "missing"]

CheckNode(dir) ==
    LET m == ReadManifest(dir)
    IN  IF "next.config.ts" \in dir.files \/ "next.config.js" \in dir.files
        THEN "nextjs"
        ELSE IF /\ "app" \in dir.subdirs
                /\ "package.json" \in dir.files
                /\ m.kind = "json"
                /\ "next" \in Get(m.doc, "dependencies", {})
        THEN "nextjs"
        ELSE IF m.kind = "json"
        THEN LET deps == Get(m.doc, "dependencies", {})
                            \cup Get(m.doc, "devDependencies", {})
             IN  IF "react" \in deps THEN "react"
                 ELSE IF "express" \in deps THEN "express"
                 ELSE IF "vite" \in deps THEN "vite"
                 ELSE "node"
        ELSE "node"

RunChecker(dir, checker) ==
    IF checker = "_check_node" THEN CheckNode(dir) ELSE checker

\* The loop of detect_type from check i on.
RECURSIVE DetectFrom(_, _)
DetectFrom(dir, i) ==
    IF i > Len(checks) THEN "folder"
    ELSE IF checks[i].file \in dir.files
    THEN RunChecker(dir, checks[i].checker)
    ELSE DetectFrom(dir, i + 1)

\* detect_type with the checks for app.py and requirements.txt exchanged.
DetectTypeSwapped(dir) ==
    IF "package.json" \in dir.files THEN CheckNode(dir)
    ELSE IF "requirements.txt" \in dir.files THEN "python"
    ELSE IF "app.py" \in dir.files THEN "streamlit"
    ELSE DetectFrom(dir, 4)

DetectType(dir) == DetectFrom(dir, 1)

Action(id, desc, cmd) == [id |-> id, desc |-> desc, cmd |-> cmd]

\* The static table of get_quick_actions (the long explanations left out).
actions ==
    [ nextjs |-> << Action("dev", "Start dev server", "npm run dev"),
                    Action("build", "Build for production", "npm run build"),
                    Action("test", "Run tests", "npm test") >>,
      react |-> << Action("dev", "Start dev server", "npm start"),
                   Action("build", "Build", "npm run build"),
                   Action("test", "Test", "npm test") >>,
      node |-> << Action("dev", "Start dev", "npm run dev"),
                  Action("start", "Start", "npm start"),
                  Action("install", "Install deps", "npm install") >>,
      streamlit |-> << Action("dev", "Run streamlit", "streamlit run app.py"),
                       Action("install", "Install deps", "pip install -r requirements.txt") >>,
      python |-> << Action("dev", "Run main.py", "python main.py"),
                    Action("install", "Install deps", "pip install -r requirements.txt"),
                    Action("venv", "Create venv", "python -m venv venv") >>,
      foundry |-> << Action("build", "Build contracts", "forge build"),
                     Action("test", "Run tests", "forge test"),
                     Action("deploy", "Deploy", "forge script") >> ]

GetQuickActions(project_type) == Get(actions, project_type, <<>>)

\* The inputs: directories with at most MaxFiles marker or config files, with or
\* without an app/ subdirectory, whose package.json (when present) is unparsable
\* or lists at most MaxDeps dependencies.
FileNames == {checks[i].file : i \in DOMAIN checks} \cup {"next.config.ts", "next.config.js"}

DepNames == {"next", "react", "express", "vite", "lodash"}

DepOptions == {None} \cup {Some(S) : S \in {T \in SUBSET DepNames : Cardinality(T) <= MaxDeps}}

DepCount(o) == IF o = None THEN 0 ELSE Cardinality(o[1])

ManifestDoc(d, v) ==
    [k \in (IF d = None THEN {} ELSE {"dependencies"})
           \cup (IF v = None THEN {} ELSE {"devDependencies"}) |->
        IF k = "dependencies" THEN d[1] ELSE v[1]]

Manifests ==
    {[kind |-> "corrupt"]} \cup
    {[kind |-> "json", doc |-> ManifestDoc(d, v)] :
        d \in DepOptions, v \in {w \in DepOptions : DepCount(w) <= MaxDeps}}

Directories ==
    {[files |-> F, subdirs |-> D, manifest |-> m] :
        F \in {G \in SUBSET FileNames : Cardinality(G) <= MaxFiles},
        D \in SUBSET {"app"},
        m \in Manifests}

WellFormedDir(dir) ==
    /\ "package.json" \notin dir.files => dir.manifest = [kind |-> "corrupt"]
    /\ dir.manifest.kind = "json" =>
          Cardinality(Get(dir.manifest.doc, "dependencies", {}))
            + Cardinality(Get(dir.manifest.doc, "devDependencies", {})) <= MaxDeps

\* detect_type() followed by get_quick_actions(), as dojo does for the current directory.
Detect ==
    /\ detected = None
    /\ lastOp' = [op |-> "detect_type"]
    /\ detected' = Some(DetectType(cwdDir))
    /\ quick' = GetQuickActions(DetectType(cwdDir))
    /\ raised' = FALSE
    /\ UNCHANGED <<cwdDir, console, clock, migVars, histVars, searchVars, healthVars>>

----------------------------------------------------------------------------
(* The context and its history operations (context.py).                    *)

RecentCap == 20
CmdCap == 100

DojoRoot == <<"home", "dojo">>

FileMissing == [kind |-> "missing"]
FileCorrupt == [kind |-> "corrupt"]
FileDoc(d) == [kind |-> "json", doc |-> d]

\* data[key] = value on a JSON object.
Put(d, k, v) == (k :> v) @@ d

\* str() of a relative path: its parts joined by "/", "." when there are none.
RECURSIVE JoinPath(_)
JoinPath(parts) ==
    IF parts = <<>> THEN "."
    ELSE IF Len(parts) = 1 THEN parts[1]
    ELSE parts[1] \o "/" \o JoinPath(Tail(parts))

\* str() of an absolute path.
PathStr(path) == IF path = <<>> THEN "/" ELSE "/" \o JoinPath(path)

DefaultHistory ==
    [recent |-> <<>>, visits |-> <<>>, command_history |-> <<>>]

DefaultConfig ==
    [learning_mode |-> FALSE, version |-> "v2", theme |-> "snowzies",
     auto_open_browser |-> TRUE]

_load_config(file) ==
    IF file.kind = "json" THEN file.doc
    ELSE [learning_mode |-> FALSE, version |-> "v2"]

is_in_dojo(cwd) == IsPrefix(DojoRoot, cwd)

\* A project name derived for every directory, inside the workspace or not.
ProjectNameAnywhere(cwd) == Some(JoinPath(cwd))

get_project_name(cwd) ==
    IF ~is_in_dojo(cwd) THEN None
    ELSE LET parts == SubSeq(cwd, Len(DojoRoot) + 1, Len(cwd))
         IN  IF Len(parts) >= 2 /\ parts[1] \in {"work", "lab", "research"}
             THEN IF Len(parts) >= 3
                  THEN Some(parts[1] \o "/" \o parts[2] \o "/" \o parts[3])
                  ELSE Some(parts[1] \o "/" \o parts[2])
             ELSE IF /\ Len(parts) >= 2
                     /\ parts[1] \in {"apps", "bots", "tools", "contracts",
                                      "protocols", "experiments"}
             THEN Some(parts[1] \o "/" \o parts[2])
             ELSE Some(JoinPath(parts))

\* get_git_status(): out is what `git status -sb` printed, <<>> when the call
\* failed, timed out or exited non-zero.
get_git_status(out) ==
    IF out = None THEN None
    ELSE Some([branch |-> out[1].branch,
               ahead |-> out[1].ahead,
               behind |-> out[1].behind,
               synced |-> out[1].uptodate,
               clean |-> out[1].changes = 0])

\* needs_migration(): t is the tree under dojo_root.
needs_migration(t) ==
    \E folder \in {"apps", "bots", "experiments", "protocols"} : Exists(t, <<folder>>)

\* recent[:n] and history[-n:].
FirstN(s, n) == IF Len(s) <= n THEN s ELSE SubSeq(s, 1, n)
LastN(s, n) == IF Len(s) <= n THEN s ELSE SubSeq(s, Len(s) - n + 1, Len(s))

\* A filter that drops nothing.
KeepAllNames(recent, name) == recent

\* [r for r in recent if r['name'] != name]
RECURSIVE WithoutName(_, _)
WithoutName(recent, name) ==
    IF recent = <<>> THEN <<>>
    ELSE (IF recent[1].name # name THEN <<recent[1]>> ELSE <<>>)
            \o WithoutName(Tail(recent), name)

\* The recent list after a visit, the cap applied before the insertion.
RecentCapFirst(recent, entry) ==
    <<entry>> \o FirstN(WithoutName(recent, entry.name), RecentCap)

\* The recent list after a visit: lines 246-250 of log_visit.
UpdateRecent(recent, entry) ==
    FirstN(<<entry>> \o WithoutName(recent, entry.name), RecentCap)

\* The command history after an append, cut from the wrong end.
CapCommandsOldest(history) == FirstN(history, CmdCap)

\* cmd_history[-100:]
CapCommands(history) == LastN(history, CmdCap)

\* A counter document that holds the visited project alone.
CountVisitOnly(visits, name) == (name :> Get(visits, name, 0) + 1)

\* The visit counter set to one at every visit.
CountVisitReset(visits, name) == Put(visits, name, 1)

\* visits[name] = visits.get(name, 0) + 1
CountVisit(visits, name) == Put(visits, name, Get(visits, name, 0) + 1)

\* log_visit(): the history file after the call.
log_visit(file, c, now) ==
    IF c.project_name = None THEN file
    ELSE IF file.kind # "json" THEN file
    ELSE LET data == file.doc
             name == c.project_name[1]
             visits == CountVisit(Get(data, "visits", <<>>), name)
             entry == [name |-> name, type |-> c.project_type,
                       timestamp |-> now, path |-> PathStr(c.cwd)]
             recent == UpdateRecent(Get(data, "recent", <<>>), entry)
         IN  FileDoc(Put(Put(data, "recent", recent), "visits", visits))

\* log_command(): the history file after the call.
log_command(file, c, command, args, now) ==
    IF file.kind # "json" THEN file
    ELSE LET data == file.doc
             entry == [command |-> command, args |-> args,
                       timestamp |-> now, project |-> c.project_name]
             cmd_history == Append(Get(data, "command_history", <<>>), entry)
         IN  FileDoc(Put(data, "command_history", CapCommands(cmd_history)))

\* DojoContext(): cwd is the current directory, dir its listing and gitout the
\* output of the status query.
Construct(cwd, dir, gitout) ==
    /\ clock < CmdCap + MaxOps
    /\ lastOp' = [op |-> "construct", cwd |-> cwd]
    /\ clock' = clock + 1
    /\ LET created == IF historyFile.kind = "missing"
                      THEN FileDoc(DefaultHistory) ELSE historyFile
           config == IF configFile.kind = "missing"
                     THEN FileDoc(DefaultConfig) ELSE configFile
           c == [cwd |-> cwd,
                 config |-> _load_config(config),
                 project_type |-> DetectType(dir),
                 project_name |-> get_project_name(cwd),
                 git_status |-> get_git_status(gitout)]
       IN  /\ configFile' = config
           /\ ctx' = Some(c)
           /\ historyFile' = log_visit(created, c, clock)
           /\ IF c.project_name = None
              THEN UNCHANGED <<visitCalls, lastVisit>>
              ELSE /\ visitCalls' = Put(visitCalls, c.project_name[1],
                                        Get(visitCalls, c.project_name[1], 0) + 1)
                   /\ lastVisit' = c.project_name
    /\ raised' = FALSE
    /\ console' = <<>>
    /\ UNCHANGED <<cmdLog, toggleCalls, tainted, inflight, migVars, clsVars, searchVars, healthVars>>

LogCommand(command, args) ==
    /\ clock < CmdCap + MaxOps
    /\ lastOp' = [op |-> "log_command"]
    /\ ctx # None
    /\ clock' = clock + 1
    /\ historyFile' = log_command(historyFile, ctx[1], command, args, clock)
    /\ cmdLog' = Append(cmdLog, [command |-> command, args |-> args,
                                 timestamp |-> clock,
                                 project |-> ctx[1].project_name])
    /\ raised' = FALSE
    /\ console' = <<>>
    /\ UNCHANGED <<configFile, ctx, visitCalls, lastVisit, toggleCalls, tainted,
                   inflight, migVars, clsVars, searchVars, healthVars>>

\* A save that writes the updated key alone.
SaveOnlyKey(config, key, value) == (key :> value)

\* self.config[key] = value: the document save_config writes.
save_config(config, key, value) == Put(config, key, value)

\* ctx.save_config(key, value)
SaveConfig(key, value) ==
    /\ clock < CmdCap + MaxOps
    /\ ctx # None
    /\ lastOp' = [op |-> "save_config", key |-> key, value |-> value]
    /\ clock' = clock + 1
    /\ LET config == save_config(ctx[1].config, key, value)
       IN  /\ ctx' = Some([ctx[1] EXCEPT !.config = config])
           /\ configFile' = FileDoc(config)
    /\ raised' = FALSE
    /\ console' = <<>>
    /\ UNCHANGED <<historyFile, visitCalls, lastVisit, cmdLog, toggleCalls, tainted,
                   inflight, migVars, clsVars, searchVars, healthVars>>

InSeq(x, s) == \E i \in DOMAIN s : s[i] = x

\* A filter that keeps the name and drops the others.
KeepOnlyFavorite(favorites, name) ==
    IF InSeq(name, favorites) THEN <<name>> ELSE <<>>

\* [f for f in favorites if f != name]
RECURSIVE WithoutFavorite(_, _)
WithoutFavorite(favorites, name) ==
    IF favorites = <<>> THEN <<>>
    ELSE (IF favorites[1] # name THEN <<favorites[1]>> ELSE <<>>)
            \o WithoutFavorite(Tail(favorites), name)

\* ctx.get_favorites(): the favorites of the history document, none when it
\* cannot be read.
get_favorites(file) ==
    IF file.kind = "json" THEN Get(file.doc, "favorites", <<>>) ELSE <<>>

\* ctx.add_favorite(name): appends name unless it is a favorite already; a
\* history that cannot be read counts as empty and is overwritten.
add_favorite(file, name) ==
    LET data == IF file.kind = "json" THEN file.doc ELSE DefaultHistory
        favorites == Get(data, "favorites", <<>>)
    IN  IF InSeq(name, favorites)
        THEN [added |-> FALSE, file |-> file]
        ELSE [added |-> TRUE,
              file |-> FileDoc(Put(data, "favorites", Append(favorites, name)))]

\* Navigator.toggle_favorite(project_name): arg is the argument, <<>> for None.
ToggleFavorite(arg) ==
    /\ clock < CmdCap + MaxOps
    /\ lastOp' = [op |-> "toggle_favorite", arg |-> arg]
    /\ ctx # None
    /\ clock' = clock + 1
    /\ raised' = FALSE
    /\ LET project_name == IF arg # None THEN arg ELSE ctx[1].project_name
       IN  IF project_name = None
           THEN /\ console' = <<Line("Not in a project", <<>>, FALSE)>>
                /\ UNCHANGED <<historyFile, toggleCalls>>
           ELSE IF InSeq(project_name[1], get_favorites(historyFile))
           THEN /\ historyFile' =
                      FileDoc(Put(historyFile.doc, "favorites",
                                  WithoutFavorite(historyFile.doc["favorites"],
                                                  project_name[1])))
                /\ console' = <<Line("Removed", <<project_name[1]>>, TRUE)>>
                /\ toggleCalls' = Put(toggleCalls, project_name[1],
                                      Get(toggleCalls, project_name[1], 0) + 1)
           ELSE LET r == add_favorite(historyFile, project_name[1])
                IN  /\ historyFile' = r.file
                    /\ console' = IF r.added
                                  THEN <<Line("Added", <<project_name[1]>>, TRUE)>>
                                  ELSE <<>>
                    /\ toggleCalls' = Put(toggleCalls, project_name[1],
                                          Get(toggleCalls, project_name[1], 0) + 1)
    /\ UNCHANGED <<configFile, ctx, visitCalls, lastVisit, cmdLog, tainted,
                   inflight, migVars, clsVars, searchVars, healthVars>>

\* history.json is damaged by something other than dojo.
CorruptHistory ==
    /\ historyFile.kind = "json"
    /\ lastOp' = [op |-> "external"]
    /\ historyFile' = FileCorrupt
    /\ tainted' = TRUE
    /\ UNCHANGED <<configFile, ctx, visitCalls, lastVisit, cmdLog, toggleCalls,
                   console, raised, clock, inflight, migVars, clsVars, searchVars, healthVars>>

\* history.json is deleted by something other than dojo.
DeleteHistory ==
    /\ historyFile.kind # "missing"
    /\ lastOp' = [op |-> "external"]
    /\ historyFile' = FileMissing
    /\ tainted' = TRUE
    /\ UNCHANGED <<configFile, ctx, visitCalls, lastVisit, cmdLog, toggleCalls,
                   console, raised, clock, inflight, migVars, clsVars, searchVars, healthVars>>

\* The history dojo has written after visits to apps/p1 .. apps/pn, in that
\* order, and m runs of `ls` outside the workspace.
PName(i) == "apps/p" \o ToString(i)
PCwd(i) == DojoRoot \o <<"apps", "p" \o ToString(i)>>

VisitedHistory(n, m) ==
    [recent |-> [i \in 1..n |->
                    [name |-> PName(n + 1 - i), type |-> "folder",
                     timestamp |-> n + 1 - i, path |-> PathStr(PCwd(n + 1 - i))]],
     visits |-> [x \in {PName(i) : i \in 1..n} |-> 1],
     command_history |-> [i \in 1..m |->
                    [command |-> "ls", args |-> <<>>, timestamp |-> i,
                     project |-> None]]]

\* The inputs of the history operations: the invocations of dojo, each with
\* its current directory, the listing of that directory and the output of the
\* status query there.
EmptyDir == [files |-> {}, subdirs |-> {}, manifest |-> [kind |-> "corrupt"]]
PythonDir == [files |-> {"requirements.txt"}, subdirs |-> {},
              manifest |-> [kind |-> "corrupt"]]
CleanMain == Some([branch |-> "main", ahead |-> FALSE, behind |-> FALSE,
                   uptodate |-> FALSE, changes |-> 0])

Invocation(cwd, dir, gitout) == [cwd |-> cwd, dir |-> dir, gitout |-> gitout]

Invocations ==
    { Invocation(<<"tmp">>, EmptyDir, None),
      Invocation(DojoRoot, EmptyDir, CleanMain),
      Invocation(PCwd(1), PythonDir, CleanMain),
      Invocation(PCwd(1) \o <<"src">>, EmptyDir, CleanMain),
      Invocation(DojoRoot \o <<"work", "apps", "demo">>, PythonDir, None),
      Invocation(DojoRoot \o <<"lab", "try">>, EmptyDir, None) }

CommandLines == { <<"ls", <<>>>>, <<"goto", <<"demo">>>> }

ToggleArgs == { None, Some(PName(1)) }

\* The favorites lists earlier invocations have left: duplicate-free, holding
\* the projects of Invocations.
FavoriteLists ==
    { <<"lab/try", PName(1)>>,
      <<PName(1), "lab/try", "work/apps/demo">>,
      <<"work/apps/demo", "lab/try">> }

\* The config files an invocation finds: none, an unreadable one, the
\* default, and documents with a key dojo does not know.
ConfigFiles ==
    { FileMissing, FileCorrupt, FileDoc(DefaultConfig),
      FileDoc(Put(DefaultConfig, "editor", "vim")),
      FileDoc([editor |-> "vim"]) }

ConfigInvocations == {v \in Invocations : Len(v.cwd) <= Len(DojoRoot)}

----------------------------------------------------------------------------
(* Concurrent invocations (context.py: log_visit and log_command). Each    *)
(* call reads the whole history document and later writes the whole        *)
(* document; nothing locks the file in between.                            *)

\* The largest number of invocations running at the same time.
MaxProcs == 2

Procs == 1..MaxProcs

\* The context of an invocation started in cwd.
RaceContext(cwd) ==
    [cwd |-> cwd, config |-> DefaultConfig, project_type |-> "folder",
     project_name |-> get_project_name(cwd), git_status |-> None]

\* Invocation p before its log_visit.
Started(cwd) == [pc |-> "start", ctx |-> RaceContext(cwd), data |-> FileMissing]

RaceVars == <<configFile, ctx, toggleCalls, tainted, console, raised,
              migVars, clsVars, searchVars, healthVars>>

\* log_visit of invocation p, line 230: json.loads(self.history_file.read_text()).
VisitRead(p) ==
    /\ inflight[p].pc = "start"
    /\ inflight[p].ctx.project_name # None
    /\ inflight' = [inflight EXCEPT ![p].pc = "visiting", ![p].data = historyFile]
    /\ lastOp' = [op |-> "visit_read", proc |-> p]
    /\ UNCHANGED <<historyFile, visitCalls, lastVisit, cmdLog, clock, RaceVars>>

\* log_visit of invocation p, lines 232-255: the document read, updated, is
\* written; nothing is written when the read failed (line 256).
VisitWrite(p) ==
    /\ inflight[p].pc = "visiting"
    /\ inflight' = [inflight EXCEPT ![p].pc = "visited"]
    /\ lastOp' = [op |-> "visit_write", proc |-> p,
                  stale |-> inflight[p].data # historyFile]
    /\ clock' = clock + 1
    /\ historyFile' = IF inflight[p].data.kind = "json"
                      THEN log_visit(inflight[p].data, inflight[p].ctx, clock)
                      ELSE historyFile
    /\ visitCalls' = Put(visitCalls, inflight[p].ctx.project_name[1],
                         Get(visitCalls, inflight[p].ctx.project_name[1], 0) + 1)
    /\ lastVisit' = inflight[p].ctx.project_name
    /\ UNCHANGED <<cmdLog, RaceVars>>

\* log_command of invocation p, line 262.
CommandRead(p) ==
    /\ inflight[p].pc = "visited"
    /\ inflight' = [inflight EXCEPT ![p].pc = "logging", ![p].data = historyFile]
    /\ lastOp' = [op |-> "command_read", proc |-> p]
    /\ UNCHANGED <<historyFile, visitCalls, lastVisit, cmdLog, clock, RaceVars>>

\* log_command of invocation p, lines 263-274.
CommandWrite(p, command, args) ==
    /\ inflight[p].pc = "logging"
    /\ inflight' = [inflight EXCEPT ![p].pc = "done"]
    /\ lastOp' = [op |-> "command_write", proc |-> p,
                  stale |-> inflight[p].data # historyFile]
    /\ clock' = clock + 1
    /\ historyFile' = IF inflight[p].data.kind = "json"
                      THEN log_command(inflight[p].data, inflight[p].ctx,
                                       command, args, clock)
                      ELSE historyFile
    /\ cmdLog' = Append(cmdLog, [command |-> command, args |-> args,
                                 timestamp |-> clock,
                                 project |-> inflight[p].ctx.project_name])
    /\ UNCHANGED <<visitCalls, lastVisit, RaceVars>>

\* The directories the concurrent invocations are started in: a project that
\* is in every initial history and one that is in none.
RaceCwds == {PCwd(1), PCwd(RecentCap + 1)}

\* The histories they find: nearly empty, or with `recent` full and the
\* command history just below its cap.
RaceHistories == {VisitedHistory(1, 0), VisitedHistory(RecentCap, CmdCap - 1)}

----------------------------------------------------------------------------
(* The fuzzy search (navigator.py: _fuzzy_search). A name or a term is a   *)
(* sequence of characters, a score is a fraction num/den.                  *)

\* The largest number of entries in the category folders of a workspace.
MaxProjects == 2

Frac(n, d) == [num |-> n, den |-> d]
Geq(r, s) == r.num * s.den >= s.num * r.den
FracMax(r, s) == IF Geq(r, s) THEN r ELSE s

\* str.lower() on the characters of the model.
LowerChar(c) == IF c = "A" THEN "a" ELSE IF c = "B" THEN "b" ELSE c
LowerStr(s) == [i \in DOMAIN s |-> LowerChar(s[i])]

\* term in name
IsSubstring(t, n) ==
    \E i \in 0..(Len(n) - Len(t)) : SubSeq(n, i + 1, i + Len(t)) = t

\* The length of the common run of a from i and b from j, within a[..ahi) and b[..bhi).
RECURSIVE RunLen(_, _, _, _, _, _)
RunLen(a, b, i, j, ahi, bhi) ==
    IF i < ahi /\ j < bhi /\ a[i] = b[j]
    THEN 1 + RunLen(a, b, i + 1, j + 1, ahi, bhi)
    ELSE 0

\* SequenceMatcher.find_longest_match(alo, ahi, blo, bhi) without junk: the
\* longest block, of those the one starting earliest in a, of those the one
\* starting earliest in b.
find_longest_match(a, b, alo, ahi, blo, bhi) ==
    LET starts == {ij \in (alo..(ahi - 1)) \X (blo..(bhi - 1)) :
                      RunLen(a, b, ij[1], ij[2], ahi, bhi) > 0}
        len(ij) == RunLen(a, b, ij[1], ij[2], ahi, bhi)
    IN  IF starts = {} THEN [i |-> alo, j |-> blo, size |-> 0]
        ELSE LET best == CHOOSE x \in starts :
                            \A y \in starts :
                                \/ len(x) > len(y)
                                \/ /\ len(x) = len(y)
                                   /\ \/ x[1] < y[1]
                                      \/ x[1] = y[1] /\ x[2] <= y[2]
             IN  [i |-> best[1], j |-> best[2], size |-> len(best)]

\* The sum of the sizes of get_matching_blocks() within a[alo..ahi) and b[blo..bhi).
RECURSIVE MatchTotal(_, _, _, _, _, _)
MatchTotal(a, b, alo, ahi, blo, bhi) ==
    IF alo >= ahi \/ blo >= bhi THEN 0
    ELSE LET m == find_longest_match(a, b, alo, ahi, blo, bhi)
         IN  IF m.size = 0 THEN 0
             ELSE m.size
                  + MatchTotal(a, b, alo, m.i, blo, m.j)
                  + MatchTotal(a, b, m.i + m.size, ahi, m.j + m.size, bhi)

\* SequenceMatcher(None, a, b).ratio()
ratio(a, b) ==
    IF Len(a) + Len(b) = 0 THEN Frac(1, 1)
    ELSE Frac(2 * MatchTotal(a, b, 1, Len(a) + 1, 1, Len(b) + 1), Len(a) + Len(b))

\* The score without the rise for a substring.
ScoreNoSubstring(term, name) == ratio(term, LowerStr(name))

\* Lines 88-92: the score of a directory name for a lowercased term.
Score(term, name) ==
    IF IsSubstring(term, LowerStr(name))
    THEN FracMax(ratio(term, LowerStr(name)), Frac(4, 5))
    ELSE ratio(term, LowerStr(name))

categories == <<"apps", "bots", "tools", "contracts", "work", "lab", "research">>

\* The position of a category in the loop of line 78.
CatIndex(cat) == CHOOSE c \in DOMAIN categories : categories[c] = cat

\* The candidates of one category folder from entry i on, scored and filtered.
RECURSIVE ScanCategory(_, _, _, _, _)
ScanCategory(cat, entries, i, term, threshold) ==
    IF i > Len(entries) THEN <<>>
    ELSE (IF entries[i].is_dir /\ Geq(Score(term, entries[i].name), threshold)
          THEN << [name |-> <<cat, entries[i].name>>,
                   score |-> Score(term, entries[i].name)] >>
          ELSE <<>>)
         \o ScanCategory(cat, entries, i + 1, term, threshold)

\* The loop over the categories from category c on.
RECURSIVE ScanAll(_, _, _, _)
ScanAll(fs, c, term, threshold) ==
    IF c > Len(categories) THEN <<>>
    ELSE (IF categories[c] \in DOMAIN fs
          THEN ScanCategory(categories[c], fs[categories[c]], 1, term, threshold)
          ELSE <<>>)
         \o ScanAll(fs, c + 1, term, threshold)

\* x put into a list sorted by score, highest first, ahead of the elements
\* that score as high as x.
RECURSIVE InsertBeforeEqual(_, _)
InsertBeforeEqual(sorted, x) ==
    IF sorted = <<>> THEN <<x>>
    ELSE IF Geq(x.score, sorted[1].score)
    THEN <<x>> \o sorted
    ELSE <<sorted[1]>> \o InsertBeforeEqual(Tail(sorted), x)

\* x put into a list sorted by score, highest first, behind the elements that
\* score as high as x.
RECURSIVE InsertByScore(_, _)
InsertByScore(sorted, x) ==
    IF sorted = <<>> THEN <<x>>
    ELSE IF Geq(sorted[1].score, x.score)
    THEN <<sorted[1]>> \o InsertByScore(Tail(sorted), x)
    ELSE <<x>> \o sorted

\* matches sorted with the lowest score first.
RECURSIVE SortAscending(_)
SortAscending(ms) ==
    IF ms = <<>> THEN <<>>
    ELSE LET rest == SortAscending(SubSeq(ms, 1, Len(ms) - 1))
             x == ms[Len(ms)]
             before == {i \in DOMAIN rest : Geq(x.score, rest[i].score)}
             k == Cardinality(before)
         IN  IF before = 1..k
             THEN SubSeq(rest, 1, k) \o <<x>> \o SubSeq(rest, k + 1, Len(rest))
             ELSE rest \o <<x>>

\* matches.sort(key=lambda x: x[1], reverse=True): a stable sort.
RECURSIVE SortByScore(_)
SortByScore(ms) ==
    IF ms = <<>> THEN <<>>
    ELSE InsertByScore(SortByScore(SubSeq(ms, 1, Len(ms) - 1)), ms[Len(ms)])

_fuzzy_search(fs, config, term) ==
    LET lowered == LowerStr(term)
        threshold == Get(config, "fuzzy_threshold", Frac(3, 5))
        sorted == SortByScore(ScanAll(fs, 1, lowered, threshold))
    IN  [i \in DOMAIN sorted |-> sorted[i].name]

FuzzySearch(term) ==
    /\ searchTerm = None
    /\ lastOp' = [op |-> "_fuzzy_search"]
    /\ ctx # None
    /\ searchTerm' = Some(term)
    /\ matches' = _fuzzy_search(listing, ctx[1].config, term)
    /\ raised' = FALSE
    /\ UNCHANGED <<listing, selection, target, osCwd, console, clock,
                   migVars, clsVars, histVars, healthVars>>

\* The inputs: the names and terms, the category folders that hold entries,
\* the workspaces of at most MaxProjects entries and the thresholds configured.
Names ==
    { <<"a">>, <<"a", "b">>, <<"A", "b">>, <<"b", "a">>, <<"a", "b", "b">>,
      <<"b", "a", "b">> }

Terms ==
    { <<>>, <<"a">>, <<"b">>, <<"a", "b">>, <<"A", "B">>, <<"b", "a">>,
      <<"a", "b", "b">> }

Entries ==
    {[name |-> n, is_dir |-> TRUE] : n \in Names}
        \cup {[name |-> <<"a", "b">>, is_dir |-> FALSE]}

FilledCategories == {"apps", "tools", "work"}

DistinctNames(entries) ==
    \A i, j \in DOMAIN entries : entries[i].name = entries[j].name => i = j

\* The folders of n entries, and the workspaces in which the categories C
\* exist and apps/, tools/ and work/ hold k[1], k[2] and k[3] entries.
FoldersOfLen(n) == {q \in [1..n -> Entries] : DistinctNames(q)}

ListingsOf(C, k) ==
    {[c \in C |-> IF c = "apps" THEN a ELSE IF c = "tools" THEN t ELSE w] :
        a \in FoldersOfLen(k[1]), t \in FoldersOfLen(k[2]), w \in FoldersOfLen(k[3])}

Listings ==
    UNION {ListingsOf(C, k) :
              C \in SUBSET FilledCategories,
              k \in {c \in (0..MaxProjects) \X (0..MaxProjects) \X (0..MaxProjects) :
                        c[1] + c[2] + c[3] <= MaxProjects}}

SearchConfigs ==
    { DefaultConfig,
      Put(DefaultConfig, "fuzzy_threshold", Frac(9, 10)),
      Put(DefaultConfig, "fuzzy_threshold", Frac(1, 1)),
      Put(DefaultConfig, "fuzzy_threshold", Frac(6, 5)) }

----------------------------------------------------------------------------
(* goto (navigator.py: goto, _show_quick_preview).                         *)

\* The number of matches goto displays: matches[:10].
DisplayCap == 10
\* The number of matches beyond DisplayCap in the largest workspace of goto.
MaxExtra == 1

DigitValue ==
    ("0" :> 0) @@ ("1" :> 1) @@ ("2" :> 2) @@ ("3" :> 3) @@ ("4" :> 4) @@
    ("5" :> 5) @@ ("6" :> 6) @@ ("7" :> 7) @@ ("8" :> 8) @@ ("9" :> 9)

RECURSIVE DigitsValue(_, _)
DigitsValue(s, acc) ==
    IF s = <<>> THEN acc
    ELSE DigitsValue(Tail(s), 10 * acc + DigitValue[s[1]])

\* int(choice) on a string of characters: the number, or <<>> when the call
\* raises ValueError.
ParseInt(s) ==
    LET signed == s # <<>> /\ s[1] \in {"-", "+"}
        body == IF signed THEN Tail(s) ELSE s
    IN  IF body = <<>> \/ \E i \in DOMAIN body : body[i] \notin DOMAIN DigitValue
        THEN None
        ELSE IF signed /\ s[1] = "-"
        THEN Some(0 - DigitsValue(body, 0))
        ELSE Some(DigitsValue(body, 0))

\* The table rows of goto, one per match of matches[:10].
TableRows(ms) ==
    [i \in DOMAIN FirstN(ms, DisplayCap) |-> Line("row", ms[i], TRUE)]

\* The two lines goto prints for the target it resolved.
TargetLines(m) == <<Line("target", m, TRUE), Line("cd", DojoRoot \o m, TRUE)>>

\* goto(search_term); choice is what Prompt.ask returns when it is called.
\* _show_quick_preview changes into the target and then raises AttributeError
\* (line 112 calls detect_type on an object without _check_node): the single
\* match path lets it escape, the selection path catches it with the bare
\* except of line 67.
Goto(term, choice) ==
    /\ searchTerm = None
    /\ lastOp' = [op |-> "goto"]
    /\ ctx # None
    /\ searchTerm' = Some(term)
    /\ LET ms == _fuzzy_search(listing, ctx[1].config, term)
       IN  /\ matches' = ms
           /\ IF ms = <<>>
              THEN /\ console' = <<Line("No projects found", term, FALSE)>>
                   /\ raised' = FALSE
                   /\ UNCHANGED <<selection, target, osCwd>>
              ELSE IF Len(ms) = 1
              THEN /\ console' = TargetLines(ms[1])
                   /\ target' = Some(ms[1])
                   /\ osCwd' = DojoRoot \o ms[1]
                   /\ raised' = TRUE
                   /\ UNCHANGED selection
              ELSE /\ selection' = Some(choice)
                   /\ raised' = FALSE
                   /\ IF ParseInt(choice) = None
                      THEN /\ console' = <<Line("Found matches", <<>>, TRUE)>>
                                  \o TableRows(ms)
                                  \o <<Line("Invalid choice", <<>>, FALSE)>>
                           /\ UNCHANGED <<target, osCwd>>
                      ELSE LET idx == ParseInt(choice)[1] - 1
                           IN  IF 0 <= idx /\ idx < Len(ms)
                               THEN /\ console' = <<Line("Found matches", <<>>, TRUE)>>
                                         \o TableRows(ms)
                                         \o TargetLines(ms[idx + 1])
                                         \o <<Line("Invalid choice", <<>>, FALSE)>>
                                    /\ target' = Some(ms[idx + 1])
                                    /\ osCwd' = DojoRoot \o ms[idx + 1]
                               ELSE /\ console' = <<Line("Found matches", <<>>, TRUE)>>
                                         \o TableRows(ms)
                                    /\ UNCHANGED <<target, osCwd>>
    /\ UNCHANGED <<listing, clock, migVars, clsVars, histVars, healthVars>>

\* The inputs of goto: what is typed at the prompt, and the workspaces in
\* which the first k places of the category folders hold a directory, two to
\* a category, named ab and abb.
Choices ==
    { <<"0">>, <<"1">>, <<"2">>, <<"3">>, <<"1", "0">>, <<"1", "1">>, <<"1", "2">>,
      <<"-", "1">>, <<"x">>, <<"1", "x">> }

GotoTerms == { <<"a", "b">>, <<"b">>, <<"b", "a">> }

GotoFolder(n) ==
    [i \in 1..n |-> [name |-> IF i = 1 THEN <<"a", "b">> ELSE <<"a", "b", "b">>,
                     is_dir |-> TRUE]]

GotoListing(k) ==
    [cat \in {categories[c] : c \in {d \in DOMAIN categories : 2 * d - 1 <= k}} |->
        GotoFolder(IF 2 * CatIndex(cat) <= k THEN 2 ELSE 1)]

GotoListings == {GotoListing(k) : k \in 0..(DisplayCap + MaxExtra)}

----------------------------------------------------------------------------
(* Health (health.py). The output of `git status -sb` is a sequence of     *)
(* lines, a line a sequence of chunks of text.                             *)

\* The largest number of repositories and projects in a scanned workspace.
MaxItems == 2
\* The largest number of fix commands that fail in one operation.
MaxCmdErrors == 1

\* The words the scan looks for that a chunk of the output holds.
Mentions(chunk) ==
    IF chunk = "[ahead 1]" THEN {"ahead"}
    ELSE IF chunk = "[behind 2]" THEN {"behind"}
    ELSE IF chunk = "[ahead 1, behind 2]" THEN {"ahead", "behind"}
    ELSE IF chunk = "branch.head" THEN {"branch.head"}
    ELSE {}

\* word in status
InStatus(word, status) ==
    \E i \in DOMAIN status : \E j \in DOMAIN status[i] : word \in Mentions(status[i][j])

\* l.strip() and not l.startswith('#')
IsChangeLine(l) == l # <<>> /\ l[1] # "##"

GitResult(name, synced, issue) == [name |-> name, synced |-> synced, issue |-> issue]

\* Lines 149-160: the result for the output of a status query that returned.
ClassifyStatus(name, status) ==
    IF InStatus("ahead", status)
    THEN GitResult(name, FALSE, Some("unpushed commits"))
    ELSE IF InStatus("behind", status)
    THEN GitResult(name, FALSE, Some("behind origin"))
    ELSE IF InStatus("Your branch is up to date", status) \/ InStatus("branch.head", status)
    THEN GitResult(name, TRUE, None)
    ELSE IF \E i \in DOMAIN status : IsChangeLine(status[i])
    THEN GitResult(name, FALSE, Some("uncommitted changes"))
    ELSE GitResult(name, TRUE, None)

\* _check_git(): subprocess.run returns for every exit code (no check=True)
\* and raises when the call times out or git is absent.
_check_git(repos) ==
    [i \in DOMAIN repos |->
        IF repos[i].query.kind = "ran"
        THEN ClassifyStatus(repos[i].name, repos[i].query.stdout)
        ELSE GitResult(repos[i].name, FALSE, Some("error"))]

\* _check_python(): every project found holds a requirements.txt.
_check_python(projects) ==
    [i \in DOMAIN projects |->
        IF ~projects[i].venv
        THEN [name |-> projects[i].name, healthy |-> FALSE, issue |-> Some("no venv")]
        ELSE IF projects[i].site_packages
        THEN [name |-> projects[i].name, healthy |-> TRUE, issue |-> None]
        ELSE [name |-> projects[i].name, healthy |-> FALSE, issue |-> Some("missing deps")]]

\* Health._check_node()
_check_node(projects) ==
    [i \in DOMAIN projects |->
        [name |-> projects[i].name, outdated |-> 0, missing |-> ~projects[i].node_modules]]

\* How a fix command ends: "ok", "nonzero" (it exits with an error code),
\* "timeout" or "absent" (the program is not installed).
Outcome(failing, tool, name) ==
    IF <<tool, name>> \in DOMAIN failing THEN failing[<<tool, name>>] ELSE "ok"

\* subprocess.run raises for a timeout and for a missing program only.
Raises(outcome) == outcome \in {"timeout", "absent"}

NoFix == [issued |-> <<>>, out |-> <<>>]

Then(a, b) == [issued |-> a.issued \o b.issued, out |-> a.out \o b.out]

\* One of the loops of the _fix_ methods over the items from i on: the
\* command is run for each and a line with the mark of its item printed.
RECURSIVE FixEach(_, _, _, _)
FixEach(items, i, tool, failing) ==
    IF i > Len(items) THEN NoFix
    ELSE LET o == Outcome(failing, tool, items[i].name)
         IN  Then([issued |-> <<[tool |-> tool, name |-> items[i].name, outcome |-> o]>>,
                   out |-> <<Line(tool, <<items[i].name>>, ~Raises(o))>>],
                  FixEach(items, i + 1, tool, failing))

FixGroup(title, items, tool, failing) ==
    IF items = <<>> THEN NoFix
    ELSE Then([issued |-> <<>>, out |-> <<Line(title, <<>>, TRUE)>>],
              FixEach(items, 1, tool, failing))

_fix_git(git_results, failing) ==
    FixGroup("Pulling repos",
             SelectSeq(git_results, LAMBDA r : r.issue = Some("behind origin")),
             "git pull", failing)

_fix_python(python_results, failing) ==
    Then(FixGroup("Creating venvs",
                  SelectSeq(python_results, LAMBDA r : r.issue = Some("no venv")),
                  "python3 -m venv", failing),
         FixGroup("Installing dependencies",
                  SelectSeq(python_results, LAMBDA r : r.issue = Some("missing deps")),
                  "pip install", failing))

_fix_node(node_results, failing) ==
    FixGroup("Installing node_modules",
             SelectSeq(node_results, LAMBDA r : r.missing),
             "npm install", failing)

_auto_fix(r, failing) ==
    Then(Then(Then(_fix_git(r.git, failing), _fix_python(r.python, failing)),
              _fix_node(r.node, failing)),
         [issued |-> <<>>, out |-> <<Line("All fixes complete", <<>>, TRUE)>>])

\* auto_fix(target): only the scans of the target are made.
AutoFix(fix_target, failing) ==
    /\ results = None
    /\ lastOp' = [op |-> "auto_fix", target |-> fix_target]
    /\ LET r == [git |-> IF fix_target \in {"git", "all"}
                         THEN _check_git(scanned.git) ELSE <<>>,
                 python |-> IF fix_target \in {"python", "all"}
                            THEN _check_python(scanned.python) ELSE <<>>,
                 node |-> IF fix_target \in {"node", "all"}
                          THEN _check_node(scanned.node) ELSE <<>>]
           f == IF fix_target = "git" THEN _fix_git(r.git, failing)
                ELSE IF fix_target = "python" THEN _fix_python(r.python, failing)
                ELSE IF fix_target = "node" THEN _fix_node(r.node, failing)
                ELSE IF fix_target = "all" THEN _auto_fix(r, failing)
                ELSE [issued |-> <<>>,
                      out |-> <<Line("Unknown target", <<fix_target>>, FALSE)>>]
       IN  /\ results' = Some(r)
           /\ issued' = f.issued
           /\ console' = <<Line("FIXING", <<fix_target>>, TRUE)>> \o f.out
    /\ raised' = FALSE
    /\ UNCHANGED <<scanned, clock, migVars, clsVars, histVars, searchVars>>

\* The lines run_check prints for one category: the count, then one line
\* per item with an issue.
RECURSIVE IssueLines(_, _, _)
IssueLines(title, rs, i) ==
    IF i > Len(rs) THEN <<>>
    ELSE <<Line(title, <<rs[i].name>>, FALSE)>> \o IssueLines(title, rs, i + 1)

\* run_check(): the three scans, the report and, when there is an issue and
\* the user agrees, _auto_fix.
RunCheck(confirm, failing) ==
    /\ results = None
    /\ lastOp' = [op |-> "run_check", confirm |-> confirm]
    /\ LET r == [git |-> _check_git(scanned.git),
                 python |-> _check_python(scanned.python),
                 node |-> _check_node(scanned.node)]
           git_issues == SelectSeq(r.git, LAMBDA x : ~x.synced)
           python_issues == SelectSeq(r.python, LAMBDA x : ~x.healthy)
           node_issues == SelectSeq(r.node, LAMBDA x : x.missing)
           has_issues == git_issues # <<>> \/ python_issues # <<>> \/ node_issues # <<>>
           report == <<Line("Git", <<>>, git_issues = <<>>)>>
                        \o IssueLines("git issue", git_issues, 1)
                        \o (IF r.python = <<>>
                            THEN <<Line("No Python projects found", <<>>, TRUE)>>
                            ELSE <<Line("Python", <<>>, python_issues = <<>>)>>
                                    \o IssueLines("python issue", python_issues, 1))
                        \o (IF r.node = <<>>
                            THEN <<Line("No Node projects found", <<>>, TRUE)>>
                            ELSE <<Line("Node", <<>>, node_issues = <<>>)>>
                                    \o IssueLines("missing node_modules", node_issues, 1))
           f == IF has_issues /\ confirm THEN _auto_fix(r, failing) ELSE NoFix
       IN  /\ results' = Some(r)
           /\ issued' = f.issued
           /\ console' = report
                \o (IF has_issues
                    THEN <<Line("QUICK FIXES AVAILABLE", <<>>, TRUE)>>
                    ELSE <<Line("Everything looks healthy", <<>>, TRUE)>>)
                \o f.out
    /\ raised' = FALSE
    /\ UNCHANGED <<scanned, clock, migVars, clsVars, histVars, searchVars>>

\* The inputs: the ways a status query ends, the repositories and projects
\* of a workspace and the fix commands that fail.
Header(chunks) == <<"##", "main...origin/main">> \o chunks

Ran(returncode, stdout) == [kind |-> "ran", returncode |-> returncode, stdout |-> stdout]

GitQueries ==
    { Ran(0, <<Header(<<>>)>>),
      Ran(0, <<Header(<<"[ahead 1]">>)>>),
      Ran(0, <<Header(<<"[behind 2]">>)>>),
      Ran(0, <<Header(<<"[ahead 1, behind 2]">>)>>),
      Ran(0, <<Header(<<>>), <<"M", "file.txt">>>>),
      Ran(0, <<Header(<<>>), <<"M", "branch.head">>>>),
      Ran(0, <<Header(<<"[behind 2]">>), <<"M", "file.txt">>>>),
      Ran(128, <<>>),
      [kind |-> "timeout"],
      [kind |-> "absent"] }

PythonStates ==
    { [venv |-> FALSE, site_packages |-> FALSE],
      [venv |-> TRUE, site_packages |-> FALSE],
      [venv |-> TRUE, site_packages |-> TRUE] }

NodeStates == { [node_modules |-> FALSE], [node_modules |-> TRUE] }

ItemName(prefix, i) == "apps/" \o prefix \o ToString(i)

\* The workspaces with a repositories, b Python projects and c Node projects.
WorkspacesOf(a, b, c) ==
    {[git |-> [i \in 1..a |-> [name |-> ItemName("r", i), query |-> g[i]]],
      python |-> [i \in 1..b |-> [name |-> ItemName("py", i), venv |-> p[i].venv,
                                  site_packages |-> p[i].site_packages]],
      node |-> [i \in 1..c |-> [name |-> ItemName("n", i),
                                node_modules |-> n[i].node_modules]]] :
        g \in [1..a -> GitQueries],
        p \in [1..b -> PythonStates],
        n \in [1..c -> NodeStates]}

\* The workspaces of at most MaxItems repositories and projects.
HealthWorkspaces ==
    UNION {WorkspacesOf(k[1], k[2], k[3]) :
              k \in {c \in (0..MaxItems) \X (0..MaxItems) \X (0..MaxItems) :
                        c[1] + c[2] + c[3] <= MaxItems}}

FixCommands(w) ==
    {<<"git pull", w.git[i].name>> : i \in DOMAIN w.git}
        \cup {<<"python3 -m venv", w.python[i].name>> : i \in DOMAIN w.python}
        \cup {<<"pip install", w.python[i].name>> : i \in DOMAIN w.python}
        \cup {<<"npm install", w.node[i].name>> : i \in DOMAIN w.node}

FailingCommands(w) ==
    UNION {[F -> {"nonzero", "timeout", "absent"}] :
              F \in {G \in SUBSET FixCommands(w) : Cardinality(G) <= MaxCmdErrors}}

FixTargets == {"git", "python", "node", "all", "everything"}

----------------------------------------------------------------------------
(* Specifications.                                                         *)

IdleMig ==
    /\ tree = <<>>
    /\ backup = None
    /\ origTree = <<>>
    /\ phase = "init"

IdleCls ==
    /\ cwdDir = [files |-> {}, subdirs |-> {}, manifest |-> [kind |-> "corrupt"]]
    /\ detected = None
    /\ quick = <<>>

IdleHist ==
    /\ historyFile = FileMissing
    /\ configFile = FileMissing
    /\ ctx = None
    /\ visitCalls = <<>>
    /\ lastVisit = None
    /\ cmdLog = <<>>
    /\ toggleCalls = <<>>
    /\ inflight = <<>>
    /\ tainted = FALSE

IdleSearch ==
    /\ listing = <<>>
    /\ searchTerm = None
    /\ matches = <<>>
    /\ selection = None
    /\ target = None
    /\ osCwd = <<"tmp">>

IdleHealth ==
    /\ scanned = [git |-> <<>>, python |-> <<>>, node |-> <<>>]
    /\ results = None
    /\ issued = <<>>

\* Migration: preview, execute and rollback on a workspace of legacy folders.
InitMig ==
    /\ tree \in InitTrees
    /\ backup = None
    /\ console = <<>>
    /\ raised = FALSE
    /\ clock = 0
    /\ origTree = tree
    /\ phase = "init"
    /\ IdleCls
    /\ IdleHist
    /\ IdleSearch
    /\ IdleHealth
    /\ lastOp = [op |-> "none"]

NextMig ==
    \/ Preview
    \/ Execute(FALSE, {})
    \/ \E failing \in Failing(Present(tree)) : Execute(TRUE, failing)
    \/ Rollback(FALSE, {})
    \/ \E failing \in Failing(Recorded(backup)) : Rollback(TRUE, failing)

SpecMig == InitMig /\ [][NextMig]_vars

\* Classification of one directory.
InitClassify ==
    /\ cwdDir \in {d \in Directories : WellFormedDir(d)}
    /\ detected = None
    /\ quick = <<>>
    /\ console = <<>>
    /\ raised = FALSE
    /\ clock = 0
    /\ IdleMig
    /\ IdleHist
    /\ IdleSearch
    /\ IdleHealth
    /\ lastOp = [op |-> "none"]

NextClassify == Detect

SpecClassify == InitClassify /\ [][NextClassify]_vars

\* The history operations, from a fresh installation, from a history that
\* earlier invocations have filled to just below its caps, or from one with
\* favorites, each toggled once.
InitHist ==
    /\ \/ /\ historyFile = FileMissing
          /\ visitCalls = <<>>
          /\ lastVisit = None
          /\ cmdLog = <<>>
          /\ toggleCalls = <<>>
          /\ inflight = <<>>
       \/ \E n \in {0, RecentCap - 1}, m \in {0, CmdCap - 1} :
             /\ historyFile = FileDoc(VisitedHistory(n, m))
             /\ visitCalls = VisitedHistory(n, m).visits
             /\ lastVisit = IF n = 0 THEN None ELSE Some(PName(n))
             /\ cmdLog = VisitedHistory(n, m).command_history
             /\ toggleCalls = <<>>
             /\ inflight = <<>>
       \/ \E favorites \in FavoriteLists :
             /\ historyFile = FileDoc(Put(DefaultHistory, "favorites", favorites))
             /\ visitCalls = <<>>
             /\ lastVisit = None
             /\ cmdLog = <<>>
             /\ toggleCalls = [x \in {favorites[i] : i \in DOMAIN favorites} |-> 1]
             /\ inflight = <<>>
    /\ configFile = FileMissing
    /\ ctx = None
    /\ tainted = FALSE
    /\ console = <<>>
    /\ raised = FALSE
    /\ clock = CmdCap
    /\ IdleMig
    /\ IdleCls
    /\ IdleSearch
    /\ IdleHealth
    /\ lastOp = [op |-> "none"]

NextHist ==
    \/ \E v \in Invocations : Construct(v.cwd, v.dir, v.gitout)
    \/ \E c \in CommandLines : LogCommand(c[1], c[2])
    \/ \E arg \in ToggleArgs : ToggleFavorite(arg)
    \/ CorruptHistory
    \/ DeleteHistory

SpecHist == InitHist /\ [][NextHist]_vars

\* The config operations: invocations of dojo that change options.
InitConfig ==
    /\ configFile \in ConfigFiles
    /\ historyFile = FileMissing
    /\ ctx = None
    /\ visitCalls = <<>>
    /\ lastVisit = None
    /\ cmdLog = <<>>
    /\ toggleCalls = <<>>
    /\ inflight = <<>>
    /\ tainted = FALSE
    /\ console = <<>>
    /\ raised = FALSE
    /\ clock = CmdCap
    /\ IdleMig
    /\ IdleCls
    /\ IdleSearch
    /\ IdleHealth
    /\ lastOp = [op |-> "none"]

NextConfig ==
    \/ \E v \in ConfigInvocations : Construct(v.cwd, v.dir, v.gitout)
    \/ SaveConfig("learning_mode", TRUE)
    \/ SaveConfig("theme", "dark")
    \/ SaveConfig("editor", "nano")
    \/ SaveConfig("pager", "less")

SpecConfig == InitConfig /\ [][NextConfig]_vars

\* Concurrent invocations in projects of the workspace, each running its
\* log_visit and then its log_command.
InitRace ==
    /\ \E h \in RaceHistories :
          /\ historyFile = FileDoc(h)
          /\ visitCalls = h.visits
          /\ lastVisit = Some(h.recent[1].name)
          /\ cmdLog = h.command_history
    /\ inflight \in [Procs -> {Started(cwd) : cwd \in RaceCwds}]
    /\ configFile = FileDoc(DefaultConfig)
    /\ ctx = None
    /\ toggleCalls = <<>>
    /\ tainted = FALSE
    /\ console = <<>>
    /\ raised = FALSE
    /\ clock = CmdCap
    /\ IdleMig
    /\ IdleCls
    /\ IdleSearch
    /\ IdleHealth
    /\ lastOp = [op |-> "none"]

NextRace ==
    \E p \in Procs :
        \/ VisitRead(p)
        \/ VisitWrite(p)
        \/ CommandRead(p)
        \/ CommandWrite(p, "ls", <<>>)

SpecRace == InitRace /\ [][NextRace]_vars

\* One fuzzy search in a workspace, by a context constructed outside it.
InitSearch ==
    /\ listing \in Listings
    /\ searchTerm = None
    /\ matches = <<>>
    /\ selection = None
    /\ target = None
    /\ osCwd = <<"tmp">>
    /\ \E config \in SearchConfigs :
          /\ configFile = FileDoc(config)
          /\ ctx = Some([cwd |-> <<"tmp">>, config |-> config,
                         project_type |-> "folder", project_name |-> None,
                         git_status |-> None])
    /\ historyFile = FileDoc(DefaultHistory)
    /\ visitCalls = <<>>
    /\ lastVisit = None
    /\ cmdLog = <<>>
    /\ toggleCalls = <<>>
    /\ inflight = <<>>
    /\ tainted = FALSE
    /\ console = <<>>
    /\ raised = FALSE
    /\ clock = 0
    /\ IdleMig
    /\ IdleCls
    /\ IdleHealth
    /\ lastOp = [op |-> "none"]

NextSearch == \E term \in Terms : FuzzySearch(term)

SpecSearch == InitSearch /\ [][NextSearch]_vars

\* One goto in a workspace of up to DisplayCap + MaxExtra directories, by a
\* context constructed outside it.
InitGoto ==
    /\ listing \in GotoListings
    /\ searchTerm = None
    /\ matches = <<>>
    /\ selection = None
    /\ target = None
    /\ osCwd = <<"tmp">>
    /\ configFile = FileDoc(DefaultConfig)
    /\ ctx = Some([cwd |-> <<"tmp">>, config |-> DefaultConfig,
                   project_type |-> "folder", project_name |-> None,
                   git_status |-> None])
    /\ historyFile = FileDoc(DefaultHistory)
    /\ visitCalls = <<>>
    /\ lastVisit = None
    /\ cmdLog = <<>>
    /\ toggleCalls = <<>>
    /\ inflight = <<>>
    /\ tainted = FALSE
    /\ console = <<>>
    /\ raised = FALSE
    /\ clock = 0
    /\ IdleMig
    /\ IdleCls
    /\ IdleHealth
    /\ lastOp = [op |-> "none"]

NextGoto == \E term \in GotoTerms, choice \in Choices : Goto(term, choice)

SpecGoto == InitGoto /\ [][NextGoto]_vars

\* One health operation on a workspace of repositories and projects.
InitHealth ==
    /\ scanned \in HealthWorkspaces
    /\ results = None
    /\ issued = <<>>
    /\ console = <<>>
    /\ raised = FALSE
    /\ clock = 0
    /\ IdleMig
    /\ IdleCls
    /\ IdleHist
    /\ IdleSearch
    /\ lastOp = [op |-> "none"]

NextHealth ==
    \/ \E t \in FixTargets, failing \in FailingCommands(scanned) : AutoFix(t, failing)
    \/ \E confirm \in BOOLEAN, failing \in FailingCommands(scanned) :
          RunCheck(confirm, failing)

SpecHealth == InitHealth /\ [][NextHealth]_vars

----------------------------------------------------------------------------
(* Claims.                                                                 *)

(* C1: for every initial workspace, a confirmed execute() followed by a    *)
(* confirmed rollback(), neither with a filesystem error, leaves the tree  *)
(* with exactly the original paths and the original content at each path.  *)
(* Stated for the original paths: after the round trip every path of the   *)
(* original tree is present with its original content.                     *)
C1_RoundTripRestores ==
    phase = "roundtrip" =>
        \A p \in DOMAIN origTree : p \in DOMAIN tree /\ tree[p] = origTree[p]

RecentOf(file) == IF file.kind = "json" THEN Get(file.doc, "recent", <<>>) ELSE <<>>
VisitsOf(file) == IF file.kind = "json" THEN Get(file.doc, "visits", <<>>) ELSE <<>>
CommandsOf(file) ==
    IF file.kind = "json" THEN Get(file.doc, "command_history", <<>>) ELSE <<>>
NamesOf(recent) == {recent[i].name : i \in DOMAIN recent}

(* C2: while the history stays well-formed, after any sequence of          *)
(* log_visit calls `recent` holds at most one entry per project, the       *)
(* project visited last is at index 0, and visits[P] is the number of      *)
(* log_visit calls made for P.                                             *)
C2_VisitsCounted ==
    (~tainted /\ historyFile.kind = "json") =>
        LET recent == RecentOf(historyFile)
            visits == VisitsOf(historyFile)
        IN  /\ \A i, j \in DOMAIN recent : recent[i].name = recent[j].name => i = j
            /\ lastVisit # None => (recent # <<>> /\ recent[1].name = lastVisit[1])
            /\ DOMAIN visits = DOMAIN visitCalls
            /\ \A P \in DOMAIN visits : visits[P] = visitCalls[P]

\* A project visited twice is at the front of a list that holds other projects.
C2_Witness ==
    /\ ~tainted
    /\ historyFile.kind = "json"
    /\ Len(RecentOf(historyFile)) > 1
    /\ VisitsOf(historyFile)[RecentOf(historyFile)[1].name] = 2

\* The entry of a non-empty recent list with the smallest timestamp.
Oldest(recent) ==
    CHOOSE e \in {recent[i] : i \in DOMAIN recent} :
        \A i \in DOMAIN recent : e.timestamp <= recent[i].timestamp

(* C3: in every reachable state `recent` has at most 20 entries, and when  *)
(* a project not in a full list is visited, the entry dropped is the one   *)
(* visited least recently.                                                 *)
C3_RecentCapped ==
    /\ Len(RecentOf(historyFile)) <= RecentCap
    /\ [][ /\ Len(RecentOf(historyFile')) <= RecentCap
           /\ ( /\ visitCalls' # visitCalls
                /\ Len(RecentOf(historyFile)) = RecentCap
                /\ lastVisit'[1] \notin NamesOf(RecentOf(historyFile)) )
              => NamesOf(RecentOf(historyFile')) =
                    (NamesOf(RecentOf(historyFile))
                        \ {Oldest(RecentOf(historyFile)).name})
                    \cup {lastVisit'[1]} ]_vars

\* More projects have been visited than the list holds, and the list is full.
C3_Witness ==
    /\ Len(RecentOf(historyFile)) = RecentCap
    /\ Cardinality(DOMAIN VisitsOf(historyFile)) > RecentCap

(* C4: while the history stays well-formed, command_history is the last    *)
(* 100 commands logged, in the order they were logged.                     *)
C4_LastCommands ==
    (~tainted /\ historyFile.kind = "json") =>
        LET h == CommandsOf(historyFile)
        IN  /\ Len(h) <= CmdCap
            /\ Len(h) = IF Len(cmdLog) <= CmdCap THEN Len(cmdLog) ELSE CmdCap
            /\ \A i \in DOMAIN h : h[i] = cmdLog[Len(cmdLog) - Len(h) + i]
            /\ \A i \in 1..(Len(h) - 1) : h[i].timestamp <= h[i + 1].timestamp

\* More commands have been logged than the history holds.
C4_Witness ==
    /\ ~tainted
    /\ historyFile.kind = "json"
    /\ Len(cmdLog) > CmdCap
    /\ Len(CommandsOf(historyFile)) = CmdCap

(* C5: when history.json is malformed or missing as log_visit runs for a   *)
(* project P, the history is treated as empty: afterwards the file is a    *)
(* well-formed document with recent == [entry for P] and visits[P] == 1.   *)
C5_CorruptTreatedAsEmpty ==
    [][ (historyFile.kind # "json" /\ visitCalls' # visitCalls) =>
            /\ historyFile'.kind = "json"
            /\ Len(RecentOf(historyFile')) = 1
            /\ RecentOf(historyFile')[1].name = lastVisit'[1]
            /\ DOMAIN VisitsOf(historyFile') = {lastVisit'[1]}
            /\ VisitsOf(historyFile')[lastVisit'[1]] = 1 ]_vars

(* C6: detect_type is first-match-wins over package.json, app.py,          *)
(* requirements.txt, foundry.toml, Cargo.toml, go.mod: the result is that  *)
(* of the resolver of the earliest marker present, and 'folder' when none  *)
(* is present.                                                             *)
C6_FirstMatchWins ==
    detected # None =>
        LET F == cwdDir.files
            t == detected[1]
        IN  IF "package.json" \in F THEN t = CheckNode(cwdDir)
            ELSE IF "app.py" \in F THEN t = "streamlit"
            ELSE IF "requirements.txt" \in F THEN t = "python"
            ELSE IF "foundry.toml" \in F THEN t = "foundry"
            ELSE IF "Cargo.toml" \in F THEN t = "rust"
            ELSE IF "go.mod" \in F THEN t = "go"
            ELSE t = "folder"

\* A directory with two markers was classified by the earlier one.
C6_Witness ==
    /\ detected = Some("streamlit")
    /\ {"app.py", "requirements.txt"} \subseteq cwdDir.files

(* C7: a directory whose only marker is a package.json with "next" among   *)
(* its dependencies is classified 'nextjs', and its quick actions hold a   *)
(* 'dev' action that runs 'npm run dev'.                                   *)
C7_NextDependencyIsNextjs ==
    ( /\ detected # None
      /\ cwdDir.files = {"package.json"}
      /\ cwdDir.manifest.kind = "json"
      /\ "next" \in Get(cwdDir.manifest.doc, "dependencies", {}) )
    => /\ detected[1] = "nextjs"
       /\ \E i \in DOMAIN quick : quick[i].id = "dev" /\ quick[i].cmd = "npm run dev"

\* The reference resolver of C8: the first of next, react, express, vite among
\* dependencies and devDependencies, 'node' when none or when unparsable.
ReferenceCheckNode(dir) ==
    LET m == ReadManifest(dir)
    IN  IF m.kind # "json" THEN "node"
        ELSE LET deps == Get(m.doc, "dependencies", {})
                            \cup Get(m.doc, "devDependencies", {})
             IN  IF "next" \in deps THEN "nextjs"
                 ELSE IF "react" \in deps THEN "react"
                 ELSE IF "express" \in deps THEN "express"
                 ELSE IF "vite" \in deps THEN "vite"
                 ELSE "node"

(* C8: _check_node returns the tag of the first of next, react, express,   *)
(* vite found among dependencies and devDependencies, and 'node' when none *)
(* is found or the manifest cannot be parsed. Stated for the directories   *)
(* without a next.config file, where the manifest alone decides.           *)
C8_CheckNodeIsReference ==
    ( /\ detected # None
      /\ "package.json" \in cwdDir.files
      /\ cwdDir.files \cap {"next.config.ts", "next.config.js"} = {} )
    => detected[1] = ReferenceCheckNode(cwdDir)

\* The directories one level under the category folders, and what the last
\* search was made with.
Projects ==
    UNION {{[cat |-> cat, name |-> listing[cat][i].name] :
                i \in {k \in DOMAIN listing[cat] : listing[cat][k].is_dir}} :
            cat \in DOMAIN listing}
Threshold == Get(ctx[1].config, "fuzzy_threshold", Frac(3, 5))
LoweredTerm == LowerStr(searchTerm[1])
IsExact(name) == LowerStr(name) = LoweredTerm
FracEq(r, s) == r.num * s.den = s.num * r.den

(* C9: when the term equals, case-insensitively, the full name of a        *)
(* project directory and the threshold is at most 1.0, that project scores *)
(* 1.0 and is the first element of the list returned.                      *)
C9_ExactMatchFirst ==
    (searchTerm # None /\ Geq(Frac(1, 1), Threshold)) =>
        \A d \in Projects :
            IsExact(d.name) =>
                /\ FracEq(Score(LoweredTerm, d.name), Frac(1, 1))
                /\ matches # <<>>
                /\ matches[1] = <<d.cat, d.name>>

(* C9 as amended: such a project scores 1.0 and is in the list returned,   *)
(* behind nothing but other projects whose name equals the term            *)
(* case-insensitively.                                                     *)
C9_ExactMatchLeads ==
    (searchTerm # None /\ Geq(Frac(1, 1), Threshold)) =>
        \A d \in Projects :
            IsExact(d.name) =>
                /\ FracEq(Score(LoweredTerm, d.name), Frac(1, 1))
                /\ \E k \in DOMAIN matches :
                      /\ matches[k] = <<d.cat, d.name>>
                      /\ \A i \in 1..(k - 1) : IsExact(matches[i][2])

\* A project named like the term but for its case, in a later category than
\* another match, leads the list.
C9_Witness ==
    /\ searchTerm # None
    /\ Len(matches) >= 2
    /\ IsExact(matches[1][2])
    /\ matches[1][2] # searchTerm[1]
    /\ ~IsExact(matches[2][2])
    /\ matches[1][1] = "work"
    /\ matches[2][1] = "apps"

(* C10: whenever the lowercased term is a substring of the lowercased      *)
(* directory name the score is max(ratio, 0.8), so at least 0.8, and under *)
(* the default threshold 0.6 the directory is in the list returned.        *)
C10_SubstringIncluded ==
    (searchTerm # None /\ "fuzzy_threshold" \notin DOMAIN ctx[1].config) =>
        \A d \in Projects :
            IsSubstring(LoweredTerm, LowerStr(d.name)) =>
                /\ Geq(Score(LoweredTerm, d.name), Frac(4, 5))
                /\ Geq(Score(LoweredTerm, d.name), ratio(LoweredTerm, LowerStr(d.name)))
                /\ InSeq(<<d.cat, d.name>>, matches)

\* A directory whose edit ratio is below the threshold is in the list, as the
\* term is a substring of its name.
C10_Witness ==
    /\ searchTerm # None
    /\ "fuzzy_threshold" \notin DOMAIN ctx[1].config
    /\ \E d \in Projects :
          /\ IsSubstring(LoweredTerm, LowerStr(d.name))
          /\ ~Geq(ratio(LoweredTerm, LowerStr(d.name)), Frac(3, 5))
          /\ InSeq(<<d.cat, d.name>>, matches)

\* The place of a directory in the enumeration of _fuzzy_search: the index of
\* its category, then its index in the listing of the category folder.
EntryIndex(m) == CHOOSE i \in DOMAIN listing[m[1]] : listing[m[1]][i].name = m[2]
EnumeratedBefore(m, n) ==
    \/ CatIndex(m[1]) < CatIndex(n[1])
    \/ CatIndex(m[1]) = CatIndex(n[1]) /\ EntryIndex(m) < EntryIndex(n)
ScoreOf(m) == Score(LoweredTerm, m[2])

(* C11: the list returned by _fuzzy_search holds, once each, exactly the   *)
(* directories one level under the existing category folders whose score   *)
(* is at least the threshold (0.6 when none is configured), ordered by     *)
(* score descending, directories of equal score in enumeration order.      *)
C11_FilteredStableSorted ==
    searchTerm # None =>
        /\ {matches[i] : i \in DOMAIN matches} =
              {<<d.cat, d.name>> : d \in {e \in Projects :
                    Geq(Score(LoweredTerm, e.name), Threshold)}}
        /\ \A i, j \in DOMAIN matches : matches[i] = matches[j] => i = j
        /\ \A i, j \in DOMAIN matches :
              i < j =>
                 /\ Geq(ScoreOf(matches[i]), ScoreOf(matches[j]))
                 /\ FracEq(ScoreOf(matches[i]), ScoreOf(matches[j]))
                       => EnumeratedBefore(matches[i], matches[j])

\* Two directories of one category score the same, below 1.0, and are
\* returned in the order of the listing.
C11_Witness ==
    /\ searchTerm # None
    /\ Len(matches) = 2
    /\ matches[1][1] = matches[2][1]
    /\ matches[1][2] # matches[2][2]
    /\ FracEq(ScoreOf(matches[1]), ScoreOf(matches[2]))
    /\ ~FracEq(ScoreOf(matches[1]), Frac(1, 1))

\* An error line is among the lines the last operation printed.
ErrorReported == \E i \in DOMAIN console : ~console[i].ok
Displayed == FirstN(matches, DisplayCap)
SelectedNumber == ParseInt(selection[1])

(* C12: with several matches, every selection that is not a number or is   *)
(* outside 1..min(10, number of matches) ends in a reported error and      *)
(* resolves no target, and a target resolved is the displayed match at the *)
(* selected position.                                                      *)
C12_SelectionChecked ==
    selection # None =>
        /\ (SelectedNumber = None \/ SelectedNumber[1] \notin DOMAIN Displayed)
              => (ErrorReported /\ target = None)
        /\ target # None =>
              /\ SelectedNumber # None
              /\ SelectedNumber[1] \in DOMAIN Displayed
              /\ target[1] = Displayed[SelectedNumber[1]]

\* The classification by the priority of C13: ahead, behind, a change line,
\* synced.
ClassifyByPriority(name, status) ==
    IF InStatus("ahead", status)
    THEN GitResult(name, FALSE, Some("unpushed commits"))
    ELSE IF InStatus("behind", status)
    THEN GitResult(name, FALSE, Some("behind origin"))
    ELSE IF \E i \in DOMAIN status : IsChangeLine(status[i])
    THEN GitResult(name, FALSE, Some("uncommitted changes"))
    ELSE GitResult(name, TRUE, None)

QueryFailed(q) == q.kind # "ran" \/ q.returncode # 0

(* C13: the scan gives every repository whose status query succeeded the   *)
(* class of the priority ahead -> unpushed commits, else behind -> behind  *)
(* origin, else a non-header line -> uncommitted changes, else synced; in  *)
(* particular no output with a change line and neither word is synced.     *)
C13_ClassifiedByPriority ==
    (results # None /\ lastOp.op \in {"auto_fix", "run_check"}) =>
        \A i \in DOMAIN results[1].git :
            ~QueryFailed(scanned.git[i].query) =>
                results[1].git[i] =
                    ClassifyByPriority(scanned.git[i].name, scanned.git[i].query.stdout)

(* C14: every repository whose status query failed (git absent, timeout,   *)
(* non-zero exit) is classified 'error' with synced = FALSE.               *)
C14_FailedQueryIsError ==
    (results # None /\ lastOp.op \in {"auto_fix", "run_check"}) =>
        \A i \in DOMAIN results[1].git :
            QueryFailed(scanned.git[i].query) =>
                /\ results[1].git[i].issue = Some("error")
                /\ ~results[1].git[i].synced

\* The last operation ran _fix_python, and ran all of _auto_fix.
RanFixPython ==
    \/ lastOp.op = "auto_fix" /\ lastOp.target \in {"python", "all"}
    \/ lastOp.op = "run_check" /\ InSeq(Line("All fixes complete", <<>>, TRUE), console)
RanAutoFixAll ==
    /\ lastOp.op = "auto_fix"
    /\ lastOp.target = "all"

IssuedAt(k, tool, name) == issued[k].tool = tool /\ issued[k].name = name

(* C15: after _fix_python every scanned item classified 'no venv' has had  *)
(* a create-environment command and then an install-dependencies command   *)
(* issued, and every 'missing deps' item an install-dependencies command.   *)
C15_VenvThenInstall ==
    (results # None /\ RanFixPython) =>
        \A i \in DOMAIN results[1].python :
            LET r == results[1].python[i]
            IN  /\ r.issue = Some("no venv") =>
                      \E a, b \in DOMAIN issued :
                          /\ a < b
                          /\ IssuedAt(a, "python3 -m venv", r.name)
                          /\ IssuedAt(b, "pip install", r.name)
                /\ r.issue = Some("missing deps") =>
                      \E b \in DOMAIN issued : IssuedAt(b, "pip install", r.name)

ToolRank(tool) ==
    IF tool = "git pull" THEN 1
    ELSE IF tool \in {"python3 -m venv", "pip install"} THEN 2
    ELSE 3

(* C16: in auto_fix('all'), whatever commands fail, every behind-origin    *)
(* repository, every no-venv and missing-deps project and every project    *)
(* without node_modules has its fix command issued, in the order git,      *)
(* python, node, and every item whose command failed (exception, timeout   *)
(* or non-zero exit) is reported as failed.                                *)
C16_FixesFaultTolerant ==
    (results # None /\ RanAutoFixAll) =>
        /\ \A i \in DOMAIN results[1].git :
              results[1].git[i].issue = Some("behind origin") =>
                  \E k \in DOMAIN issued : IssuedAt(k, "git pull", results[1].git[i].name)
        /\ \A i \in DOMAIN results[1].python :
              /\ results[1].python[i].issue = Some("no venv") =>
                    \E k \in DOMAIN issued :
                        IssuedAt(k, "python3 -m venv", results[1].python[i].name)
              /\ results[1].python[i].issue = Some("missing deps") =>
                    \E k \in DOMAIN issued :
                        IssuedAt(k, "pip install", results[1].python[i].name)
        /\ \A i \in DOMAIN results[1].node :
              results[1].node[i].missing =>
                  \E k \in DOMAIN issued : IssuedAt(k, "npm install", results[1].node[i].name)
        /\ \A a, b \in DOMAIN issued :
              a < b => ToolRank(issued[a].tool) <= ToolRank(issued[b].tool)
        /\ \A k \in DOMAIN issued :
              issued[k].outcome # "ok" =>
                  /\ InSeq(Line(issued[k].tool, <<issued[k].name>>, FALSE), console)
                  /\ ~InSeq(Line(issued[k].tool, <<issued[k].name>>, TRUE), console)

\* What is below a directory: relative path -> "dir" or a file's content.
Subtree(t, root) ==
    [p \in {SubSeq(q, Len(root) + 1, Len(q)) : q \in {x \in DOMAIN t : IsPrefix(root, x)}} |->
        t[root \o p]]

(* C17: for a workspace with apps/ and without work/, needs_migration() is *)
(* true, and a confirmed execute() in which no move fails leaves no apps/  *)
(* and a work/apps/ that holds exactly what apps/ held.                    *)
C17_AppsMovedToWork ==
    /\ (Exists(tree, <<"apps">>) /\ ~Exists(tree, <<"work">>)) => needs_migration(tree)
    /\ [][ ( /\ lastOp'.op = "execute"
             /\ lastOp'.confirm
             /\ AllOk(console')
             /\ Exists(tree, <<"apps">>)
             /\ ~Exists(tree, <<"work">>) )
           => /\ needs_migration(tree)
              /\ ~Exists(tree', <<"apps">>)
              /\ IsDir(tree', <<"work", "apps">>)
              /\ Subtree(tree', <<"work", "apps">>) = Subtree(tree, <<"apps">>) ]_vars

\* The first operation on a workspace with apps/ and without work/ was a
\* confirmed execute() without a failed move, and the file of apps/ is in
\* work/apps/.
C17_Witness ==
    /\ lastOp.op = "execute"
    /\ lastOp.confirm
    /\ phase = "executed"
    /\ <<"apps">> \in DOMAIN origTree
    /\ <<"work">> \notin DOMAIN origTree
    /\ <<"apps">> \notin DOMAIN tree
    /\ <<"work", "apps", "data">> \in DOMAIN tree
    /\ tree[<<"work", "apps", "data">>] = origTree[<<"apps", "data">>]

(* C18: the backup record is absent initially, present after a confirmed   *)
(* execute() and absent again after the next confirmed rollback(); no      *)
(* other step creates or removes it, so it is present exactly while a      *)
(* migration has been executed and not rolled back; rollback() without a   *)
(* backup reports an error, moves nothing and changes nothing.             *)
C18_BackupLifecycle ==
    /\ lastOp.op = "none" => backup = None
    /\ [][ IF lastOp'.op = "execute" /\ lastOp'.confirm
           THEN backup' # None
           ELSE IF lastOp'.op = "rollback" /\ backup = None
           THEN /\ tree' = tree
                /\ backup' = None
                /\ \E i \in DOMAIN console' : ~console'[i].ok
                /\ \A i \in DOMAIN console' : console'[i].msg # "restoring"
           ELSE IF lastOp'.op = "rollback" /\ lastOp'.confirm
           THEN backup' = None
           ELSE backup' = backup ]_vars

\* After execute() and rollback() a second rollback() has found no backup.
C18_Witness ==
    /\ phase = "roundtrip"
    /\ lastOp.op = "rollback"
    /\ backup = None
    /\ console = <<Line("no backup", <<>>, FALSE)>>

(* C19: after save_config(key, value) the persisted config maps key to     *)
(* value, and every other key the persisted document held before the call  *)
(* is still there with the value it had, the keys dojo does not know        *)
(* included.                                                               *)
C19_SaveConfigMerges ==
    [][ lastOp'.op = "save_config" =>
            /\ configFile'.kind = "json"
            /\ lastOp'.key \in DOMAIN configFile'.doc
            /\ configFile'.doc[lastOp'.key] = lastOp'.value
            /\ configFile.kind = "json" =>
                  \A k \in DOMAIN configFile.doc \ {lastOp'.key} :
                      /\ k \in DOMAIN configFile'.doc
                      /\ configFile'.doc[k] = configFile.doc[k] ]_vars

\* The theme was saved to a config that held a key dojo does not know, and
\* the key is still there.
C19_Witness ==
    /\ lastOp.op = "save_config"
    /\ lastOp.key = "theme"
    /\ configFile.kind = "json"
    /\ DOMAIN configFile.doc = DOMAIN DefaultConfig \cup {"editor"}
    /\ configFile.doc["theme"] = "dark"
    /\ configFile.doc["editor"] = "vim"

(* C20: when dojo is started in a directory that is not under the          *)
(* workspace root, the project name is None and the construction with its  *)
(* log_visit leaves an existing history document as it is: recent, visits, *)
(* command_history and favorites are unchanged.                            *)
C20_OutsideRootNoVisit ==
    [][ (lastOp'.op = "construct" /\ ~IsPrefix(DojoRoot, lastOp'.cwd)) =>
            /\ ctx'[1].project_name = None
            /\ historyFile.kind = "json" =>
                  /\ historyFile' = historyFile
                  /\ RecentOf(historyFile') = RecentOf(historyFile)
                  /\ VisitsOf(historyFile') = VisitsOf(historyFile)
                  /\ CommandsOf(historyFile') = CommandsOf(historyFile)
                  /\ get_favorites(historyFile') = get_favorites(historyFile) ]_vars

\* dojo was started outside the workspace with a history that holds visits,
\* commands and a favorite.
C20_Witness ==
    /\ lastOp.op = "construct"
    /\ ~IsPrefix(DojoRoot, lastOp.cwd)
    /\ ctx[1].project_name = None
    /\ historyFile.kind = "json"
    /\ RecentOf(historyFile) # <<>>
    /\ CommandsOf(historyFile) # <<>>
    /\ get_favorites(historyFile) # <<>>

NoDuplicates(s) == \A i, j \in DOMAIN s : s[i] = s[j] => i = j
Others(s, name) == SelectSeq(s, LAMBDA f : f # name)
TimesToggled(name) == Get(toggleCalls, name, 0)

(* C21: starting from a duplicate-free favorites list, after any sequence  *)
(* of toggle_favorite calls the persisted favorites hold no duplicates; a  *)
(* name is in the list exactly when it has been toggled an odd number of   *)
(* times (while nothing but dojo writes the history); a toggle of a        *)
(* present name removes it, a toggle of an absent name appends it, and the *)
(* other names keep their relative order.                                  *)
C21_FavoritesAreSet ==
    /\ [](LET favorites == get_favorites(historyFile)
          IN  /\ NoDuplicates(favorites)
              /\ ~tainted =>
                    \A name \in DOMAIN toggleCalls \cup {favorites[i] : i \in DOMAIN favorites} :
                        InSeq(name, favorites) <=> TimesToggled(name) % 2 = 1)
    /\ [][ toggleCalls' # toggleCalls =>
            LET name == CHOOSE x \in DOMAIN toggleCalls' :
                            TimesToggled(x) # toggleCalls'[x]
                before == get_favorites(historyFile)
                after == get_favorites(historyFile')
            IN  /\ InSeq(name, before) => ~InSeq(name, after)
                /\ ~InSeq(name, before) => after = Append(before, name)
                /\ Others(after, name) = Others(before, name) ]_vars

\* A favorite of the initial list has been toggled off after another project
\* was toggled on behind the one that stays.
C21_Witness ==
    /\ ~tainted
    /\ lastOp.op = "toggle_favorite"
    /\ get_favorites(historyFile) = <<"lab/try", "work/apps/demo">>
    /\ TimesToggled(PName(1)) = 2
    /\ TimesToggled("work/apps/demo") = 1

ConfirmedExecute == lastOp'.op = "execute" /\ lastOp'.confirm
MovingLines(out) == SelectSeq(out, LAMBDA l : l.msg = "moving")
PresentEntries(t) == SelectSeq(structure_map, LAMBDA e : Exists(t, e.from))

(* C22: after a confirmed execute() the backup's moves are exactly the     *)
(* mapping entries whose move succeeded, in mapping order: an entry whose  *)
(* source was absent or whose move failed (the source is still in place)   *)
(* is not recorded, every entry whose source was present has been          *)
(* attempted, whatever failed before it, and the backup written holds the  *)
(* moves of the whole loop.                                                *)
C22_BackupRecordsSuccesses ==
    [][ ConfirmedExecute =>
            LET attempted == PresentEntries(tree)
                lines == MovingLines(console')
            IN  /\ backup' # None
                /\ backup'[1].moves =
                      SelectSeq(attempted, LAMBDA e : ~Exists(tree', e.from))
                /\ Len(lines) = Len(attempted)
                /\ \A i \in DOMAIN lines :
                      /\ lines[i].path = attempted[i].from
                      /\ lines[i].ok <=> ~Exists(tree', attempted[i].from) ]_vars

\* The first of two moves has failed and the second is the one recorded.
C22_Witness ==
    /\ lastOp.op = "execute"
    /\ lastOp.confirm
    /\ Len(MovingLines(console)) = 2
    /\ ~MovingLines(console)[1].ok
    /\ MovingLines(console)[2].ok
    /\ backup # None
    /\ Len(backup[1].moves) = 1
    /\ backup[1].moves[1].from = MovingLines(console)[2].path

ConfirmedRollback == lastOp'.op = "rollback" /\ lastOp'.confirm /\ backup # None
RestoringLines(out) == SelectSeq(out, LAMBDA l : l.msg = "restoring")

(* C23: a confirmed rollback() attempts the reversal of every recorded     *)
(* move, the last recorded first; a reversal that fails is followed by the *)
(* remaining ones; and the backup record is gone when the operation ends,  *)
(* all reversals attempted.                                                *)
C23_ReverseOrderAll ==
    [][ ConfirmedRollback =>
            LET moves == backup[1].moves
                lines == RestoringLines(console')
            IN  /\ Len(lines) = Len(moves)
                /\ \A i \in DOMAIN lines :
                      lines[i].path = moves[Len(moves) + 1 - i].from
                /\ backup' = None ]_vars

\* Two moves were recorded; the reversal of the last one failed and the
\* reversal of the first one followed and succeeded.
C23_Witness ==
    /\ lastOp.op = "rollback"
    /\ lastOp.confirm
    /\ backup = None
    /\ Len(RestoringLines(console)) = 2
    /\ ~RestoringLines(console)[1].ok
    /\ RestoringLines(console)[2].ok
    /\ Exists(tree, RestoringLines(console)[2].path)

RecordedMoves == IF backup = None THEN <<>> ELSE backup[1].moves

(* C24: after any sequence of confirmed execute() and rollback() calls the *)
(* backup record lists every move that has been performed and not yet      *)
(* reversed: every legacy folder of the original workspace that is no      *)
(* longer at its place is the source of a recorded move. In particular a   *)
(* second execute() keeps the record of the moves of the first.            *)
C24_BackupListsUnreversed ==
    \A i \in DOMAIN structure_map :
        (Exists(origTree, structure_map[i].from) /\ ~Exists(tree, structure_map[i].from))
            => InSeq(structure_map[i], RecordedMoves)

(* C25: no operation ends in an unhandled error: goto, also on the         *)
(* single-match path through _show_quick_preview, ends in a reported       *)
(* outcome and returns normally.                                           *)
C25_NoUnhandledError == ~raised

VisitCount(file, name) == Get(VisitsOf(file), name, 0)
VisitedNames(file) == DOMAIN VisitsOf(file)

(* C26: for every interleaving of the reads and writes of concurrent       *)
(* log_visit calls, the persisted visits[name] of every name never         *)
(* decreases from one persisted state to the next and is never reset.      *)
C26_VisitsMonotone ==
    [][ \A name \in VisitedNames(historyFile) :
            /\ name \in VisitedNames(historyFile')
            /\ VisitCount(historyFile', name) >= VisitCount(historyFile, name) ]_vars

(* C26, amended: the last writer wins. Every write of log_visit persists   *)
(* the counts its invocation read, with the count of its own project one   *)
(* higher; so no count decreases at a write whose invocation read the      *)
(* document that is persisted at the time of the write, and after a write  *)
(* the count of the writer's project is at least one.                      *)
C26_LastWriterWins ==
    [][ lastOp'.op = "visit_write" =>
            LET p == lastOp'.proc
                read == inflight[p].data
                own == inflight[p].ctx.project_name[1]
            IN  /\ VisitedNames(historyFile') = VisitedNames(read) \cup {own}
                /\ VisitCount(historyFile', own) = VisitCount(read, own) + 1
                /\ \A name \in VisitedNames(read) \ {own} :
                      VisitCount(historyFile', name) = VisitCount(read, name)
                /\ ~lastOp'.stale =>
                      \A name \in VisitedNames(historyFile) :
                          VisitCount(historyFile', name) >= VisitCount(historyFile, name)
        ]_vars

\* An invocation has written after another one wrote between its read and
\* its write: a project visited once more is not counted.
C26_Witness ==
    /\ lastOp.op = "visit_write"
    /\ lastOp.stale
    /\ \E name \in DOMAIN visitCalls : VisitCount(historyFile, name) < visitCalls[name]

(* C27: for every interleaving of the reads and writes of concurrent       *)
(* log_visit and log_command calls, every persisted history document has   *)
(* at most 20 entries in `recent`, no two of them with the same name, and  *)
(* at most 100 entries in `command_history`.                               *)
C27_StructureSurvivesRaces ==
    LET recent == RecentOf(historyFile)
    IN  /\ historyFile.kind = "json"
        /\ Len(recent) <= RecentCap
        /\ \A i, j \in DOMAIN recent : recent[i].name = recent[j].name => i = j
        /\ Len(CommandsOf(historyFile)) <= CmdCap

\* Both lists are full after a write of a document that was read before
\* another invocation wrote, and a project visited meanwhile is in `recent`.
C27_Witness ==
    /\ lastOp.op \in {"visit_write", "command_write"}
    /\ lastOp.stale
    /\ Len(RecentOf(historyFile)) = RecentCap
    /\ Len(CommandsOf(historyFile)) = CmdCap
    /\ PName(RecentCap + 1) \in NamesOf(RecentOf(historyFile))
    /\ Len(cmdLog) > CmdCap

(* C28: needs_migration() agrees with execute(): for every workspace tree  *)
(* needs_migration() is true exactly when a confirmed execute() finds a    *)
(* mapping source present and attempts a move; when it is false execute()  *)
(* performs no move.                                                       *)
C28_NeedsMigrationAgrees ==
    [][ ConfirmedExecute =>
            /\ needs_migration(tree) <=> MovingLines(console') # <<>>
            /\ ~needs_migration(tree) => backup'[1].moves = <<>> ]_vars

(* C29: every move recorded by execute() is a rename of its source to its  *)
(* destination: for each recorded {from, to}, after execute() the          *)
(* directory that was at `from` is at exactly the path `to`, with what it  *)
(* held, and `from` is gone; also for experiments -> lab and archive ->    *)
(* resources, whose destination execute() has created before.              *)
C29_RecordedMoveIsRename ==
    [][ ConfirmedExecute =>
            \A i \in DOMAIN backup'[1].moves :
                LET move == backup'[1].moves[i]
                IN  /\ ~Exists(tree', move.from)
                    /\ Subtree(tree', move.to) = Subtree(tree, move.from) ]_vars

Declined == lastOp'.op \in {"execute", "rollback"} /\ ~lastOp'.confirm

(* C30: declining the confirmation is free of side effects: a declined     *)
(* execute() leaves the directory tree as it is (no top-level folder made, *)
(* no move) and writes no backup record; a declined rollback() reverses no *)
(* move and keeps the backup record as it is.                              *)
C30_DeclineChangesNothing ==
    [][ Declined => /\ tree' = tree
                    /\ backup' = backup ]_vars

\* A rollback has been declined while a backup with a recorded move exists,
\* in a workspace where a legacy folder is still to be moved.
C30_Witness ==
    /\ lastOp.op = "rollback"
    /\ ~lastOp.confirm
    /\ RecordedMoves # <<>>
    /\ PresentEntries(tree) # <<>>
    /\ console[Len(console)].msg = "cancelled"

====
